---- MODULE Spec2Model ----
(***************************************************************************)
(* Voice front end of spark-voice (src/public/app.js): the voice session   *)
(* (startVoice / stopVoice), the two backend variants (ElevenLabs and      *)
(* OpenAI realtime), their sockets, microphone capture and playback        *)
(* queues.                                                                 *)
(*                                                                         *)
(* The program runs on a single-threaded event loop.  Every action below   *)
(* is one task of that loop: a click handler, a socket event, the          *)
(* resolution of an awaited promise, an audio callback or a timer.  An     *)
(* async function is cut at its awaits; the part between two awaits is     *)
(* one action.                                                             *)
(*                                                                         *)
(* Handlers are written as operators from a state record to a state        *)
(* record (Cur packs the variables, Becomes unpacks the result), so that   *)
(* a handler that calls another one is the composition of the two.         *)
(***************************************************************************)
EXTENDS Integers, Sequences, FiniteSets

\* Bounds of the model.
MaxStarts == 2           \* startVoice calls in a behaviour of Spec
MaxSessionPayloads == 1  \* audio payloads received in a behaviour of Spec
MaxPayloads == 3         \* audio payloads received in a behaviour of SpecPlayback
MaxRun == 2              \* cap of the counter of consecutive user_speaking deliveries
MaxChatSockets == 3      \* chat sockets created in a behaviour of SpecChat
MaxDecodePayloads == 3   \* audio payloads received in a behaviour of SpecDecode
MaxTurnPayloads == 2     \* audio payloads received in a behaviour of SpecTranscript
MaxRecordings == 2       \* recordings started in a behaviour of SpecNotes
MaxSends == 2            \* invocations of sendToModeSession in a top-level call
MaxChunks == 1           \* chunks a process writes on stdout, and on stderr
MaxTimestamp == 2        \* the timestamps of messages are 1 .. MaxTimestamp
MaxReceived == 1         \* chat messages received on the chat socket
MaxHistory == 1          \* messages of a history the server returns
MaxSubmits == 2          \* messages submitted in a behaviour of SpecSend
MaxEnters == 2           \* enterMode calls in a behaviour of SpecFeed
MaxSamples == 2          \* samples of a Float32Array given to encode in SpecCodec

MaxTexts == 2            \* text messages received in a behaviour of SpecTranscript

\* Constants of the program.
MAX_RECONNECT_ATTEMPTS == 5   \* declared and never read
ReconnectDelay == 2000        \* setTimeout(connect, 2000)

Starts == 1 .. MaxStarts
ChatSockets == 1 .. MaxChatSockets
Variants == {"elevenlabs", "openai"}

VARIABLES
  mode,                     \* 'chat' | 'voice'                         (app.js:238)
  isListening,              \*                                            (app.js:242)
  voiceMode,                \* 'elevenlabs' | 'openai'                    (app.js:255)
  toggleShown,              \* the #voice-mode-toggle element exists
  voiceStatus,              \* text of the voice status indicator
  voiceActive,              \* class 'speaking' of the voice bar
  starts,                   \* number of startVoice calls so far
  variantOf,                \* start k -> variant that start k started
  capPc,                    \* start k -> position of its capture start
  stream,                   \* start k -> its MediaStream: none | live | stopped
  graph,                    \* start k -> its capture graph: none | cur | leaked
  sock,                     \* start k -> readyState of the WebSocket it created
  voiceMediaStream,         \* 0 (null) or the start whose stream it holds (app.js:918)
  realtimeMediaStream,      \*                                            (app.js:1374)
  audioWorkletNode,         \* 0 (null) or the start whose node it holds  (app.js:919)
  realtimeScriptProcessor,  \*                                            (app.js:1375)
  elevenLabsAudioContext,   \* null | running | closed                    (app.js:914)
  realtimeAudioContext,     \* null | running                             (app.js:1373)
  realtimePlaybackContext,  \* null | running                             (app.js:1376)
  elevenLabsWs,             \* 0 (null) or the start whose socket it holds (app.js:910)
  realtimeWs,               \*                                            (app.js:1372)
  elevenLabsAudioQueue,     \* sequence of payload ids                    (app.js:922)
  openAiAudioQueue,         \*                                            (app.js:923)
  isPlayingElevenLabs,      \*                                            (app.js:924)
  isPlayingOpenAi,          \*                                            (app.js:925)
  loops,                    \* suspended invocations of the three drain functions
  nextId,                   \* id of the next payload to arrive (arrival order)
  payloadData,              \* payload id -> the base64 string it carries
  voiceContent,             \* the message elements of #voice-content, in document
                            \* order: [id, role, text, thinking]         (app.js:198)
  currentUserMsg,           \* 0 (null) or the id of the element it holds (app.js:928)
  currentAssistantMsg,      \*                                            (app.js:929)
  nextText,                 \* tag of the next text to arrive (arrival order)
  \* Observation (history) variables: they record what happened and are never read
  \* by a handler.
  lastStartedEl,            \* payload started last on the speaker, ElevenLabs queue
  lastStartedOa,            \* payload started last on the speaker, OpenAI queue
  flushMarkEl,              \* nextId at the last flush of the ElevenLabs queue, or 0
  flushMarkOa,              \* nextId at the last flush of the OpenAI queue, or 0
  flushRun,                 \* flush calls made by the current run of consecutive
                            \* user_speaking deliveries
  afterStop,                \* stopVoice has returned and startVoice has not run since
  sentAfterStop,            \* a captured frame was sent while afterStop
  turnText,                 \* the assistant's text of the turn as the backend sent it:
                            \* the last full text and the deltas after it
  droppedAt,                \* nextId when a wire payload was last dropped by the catch
                            \* block of a voice socket's onmessage, or 0
  thinkingInterval,         \* [handle: the variable is not null, running: the number
                            \* of intervals set and not cleared]         (app.js:933)
  \* The chat socket.
  ws,                       \* 0 (null) or the chat socket it holds          (app.js:237)
  chatSock,                 \* chat socket k -> its readyState
  chatSockets,              \* number of chat sockets created so far
  connectTimers,            \* pending setTimeout(connect, ...) timers
  \* Observation variables of the chat socket.
  clientClosed,             \* chat socket k -> the client has called close() on it
  reconnects,               \* reconnect timers set since the last open event
  lastDelay,                \* delay of the reconnect timer set last, or 0
  \* The PCM16 conversions (pure functions): an invocation of encode and of decode
  \* on its result.
  codec,                    \* [pc, float32Array, base64, float32]
  \* The voice notes (NOTES MODE) and send().
  notes,                    \* the recorder's globals, the recorder's queued events,
                            \* isProcessing and the suspended finishRecording calls
  \* A top-level call of sendToModeSession (src/notes/IMPROVEMENT-IDEAS.md).
  modeSession,              \* the chain of sendToModeSession invocations and the
                            \* numbers of calls of the callbacks
  \* The chat feed: the page, the mode sessions and the message list.
  feed                      \* pageState, currentSparkMode, modeHistory, the elements
                            \* of #messages, the preloaded history and its flags,
                            \* lastMessageTimestamp, and the requests in flight

vars == << mode, isListening, voiceMode, toggleShown, voiceStatus, voiceActive,
           starts, variantOf, capPc, stream, graph, sock, voiceMediaStream,
           realtimeMediaStream, audioWorkletNode, realtimeScriptProcessor,
           elevenLabsAudioContext, realtimeAudioContext, realtimePlaybackContext,
           elevenLabsWs, realtimeWs, elevenLabsAudioQueue, openAiAudioQueue,
           isPlayingElevenLabs, isPlayingOpenAi, loops, nextId, payloadData,
           voiceContent, currentUserMsg, currentAssistantMsg, nextText,
           lastStartedEl, lastStartedOa, flushMarkEl, flushMarkOa, flushRun,
           afterStop, sentAfterStop, turnText, droppedAt, thinkingInterval,
           ws, chatSock, chatSockets, connectTimers, clientClosed, reconnects,
           lastDelay, codec, notes, modeSession, feed >>

\* The variables of the components the voice interface and the chat socket never
\* touch.
otherVars == << codec, notes, modeSession, feed >>

chatVars == << ws, chatSock, chatSockets, connectTimers, clientClosed, reconnects,
               lastDelay >>

\* The handlers' variables, without the observation variables.
progVars == << mode, isListening, voiceMode, toggleShown, voiceStatus, voiceActive,
               starts, variantOf, capPc, stream, graph, sock, voiceMediaStream,
               realtimeMediaStream, audioWorkletNode, realtimeScriptProcessor,
               elevenLabsAudioContext, realtimeAudioContext, realtimePlaybackContext,
               elevenLabsWs, realtimeWs, elevenLabsAudioQueue, openAiAudioQueue,
               isPlayingElevenLabs, isPlayingOpenAi, loops, nextId,
               payloadData, voiceContent, currentUserMsg, currentAssistantMsg, nextText >>

Cur ==
  [ mode |-> mode, isListening |-> isListening, voiceMode |-> voiceMode,
    toggleShown |-> toggleShown, voiceStatus |-> voiceStatus,
    voiceActive |-> voiceActive, starts |-> starts, variantOf |-> variantOf,
    capPc |-> capPc, stream |-> stream, graph |-> graph, sock |-> sock,
    voiceMediaStream |-> voiceMediaStream,
    realtimeMediaStream |-> realtimeMediaStream,
    audioWorkletNode |-> audioWorkletNode,
    realtimeScriptProcessor |-> realtimeScriptProcessor,
    elevenLabsAudioContext |-> elevenLabsAudioContext,
    realtimeAudioContext |-> realtimeAudioContext,
    realtimePlaybackContext |-> realtimePlaybackContext,
    elevenLabsWs |-> elevenLabsWs, realtimeWs |-> realtimeWs,
    elevenLabsAudioQueue |-> elevenLabsAudioQueue,
    openAiAudioQueue |-> openAiAudioQueue,
    isPlayingElevenLabs |-> isPlayingElevenLabs,
    isPlayingOpenAi |-> isPlayingOpenAi, loops |-> loops, nextId |-> nextId,
    payloadData |-> payloadData,
    voiceContent |-> voiceContent, currentUserMsg |-> currentUserMsg,
    currentAssistantMsg |-> currentAssistantMsg, nextText |-> nextText,
    lastStartedEl |-> lastStartedEl, lastStartedOa |-> lastStartedOa,
    flushMarkEl |-> flushMarkEl, flushMarkOa |-> flushMarkOa,
    flushRun |-> flushRun, afterStop |-> afterStop,
    sentAfterStop |-> sentAfterStop, turnText |-> turnText,
    droppedAt |-> droppedAt, thinkingInterval |-> thinkingInterval ]

VoiceVarsBecome(s) ==
  /\ mode' = s.mode
  /\ isListening' = s.isListening
  /\ voiceMode' = s.voiceMode
  /\ toggleShown' = s.toggleShown
  /\ voiceStatus' = s.voiceStatus
  /\ voiceActive' = s.voiceActive
  /\ starts' = s.starts
  /\ variantOf' = s.variantOf
  /\ capPc' = s.capPc
  /\ stream' = s.stream
  /\ graph' = s.graph
  /\ sock' = s.sock
  /\ voiceMediaStream' = s.voiceMediaStream
  /\ realtimeMediaStream' = s.realtimeMediaStream
  /\ audioWorkletNode' = s.audioWorkletNode
  /\ realtimeScriptProcessor' = s.realtimeScriptProcessor
  /\ elevenLabsAudioContext' = s.elevenLabsAudioContext
  /\ realtimeAudioContext' = s.realtimeAudioContext
  /\ realtimePlaybackContext' = s.realtimePlaybackContext
  /\ elevenLabsWs' = s.elevenLabsWs
  /\ realtimeWs' = s.realtimeWs
  /\ elevenLabsAudioQueue' = s.elevenLabsAudioQueue
  /\ openAiAudioQueue' = s.openAiAudioQueue
  /\ isPlayingElevenLabs' = s.isPlayingElevenLabs
  /\ isPlayingOpenAi' = s.isPlayingOpenAi
  /\ loops' = s.loops
  /\ nextId' = s.nextId
  /\ payloadData' = s.payloadData
  /\ voiceContent' = s.voiceContent
  /\ currentUserMsg' = s.currentUserMsg
  /\ currentAssistantMsg' = s.currentAssistantMsg
  /\ nextText' = s.nextText
  /\ lastStartedEl' = s.lastStartedEl
  /\ lastStartedOa' = s.lastStartedOa
  /\ flushMarkEl' = s.flushMarkEl
  /\ flushMarkOa' = s.flushMarkOa
  /\ flushRun' = s.flushRun
  /\ afterStop' = s.afterStop
  /\ sentAfterStop' = s.sentAfterStop
  /\ turnText' = s.turnText
  /\ droppedAt' = s.droppedAt
  /\ thinkingInterval' = s.thinkingInterval

\* A task of the voice interface or of the chat socket leaves the other components
\* alone.
VoiceBecomes(s) == VoiceVarsBecome(s) /\ UNCHANGED otherVars

\* A task of the voice interface: the chat socket is left alone.
Becomes(s) == VoiceBecomes(s) /\ UNCHANGED chatVars

\* The variables hold the state s.
StartsAs(s) ==
  /\ mode = s.mode
  /\ isListening = s.isListening
  /\ voiceMode = s.voiceMode
  /\ toggleShown = s.toggleShown
  /\ voiceStatus = s.voiceStatus
  /\ voiceActive = s.voiceActive
  /\ starts = s.starts
  /\ variantOf = s.variantOf
  /\ capPc = s.capPc
  /\ stream = s.stream
  /\ graph = s.graph
  /\ sock = s.sock
  /\ voiceMediaStream = s.voiceMediaStream
  /\ realtimeMediaStream = s.realtimeMediaStream
  /\ audioWorkletNode = s.audioWorkletNode
  /\ realtimeScriptProcessor = s.realtimeScriptProcessor
  /\ elevenLabsAudioContext = s.elevenLabsAudioContext
  /\ realtimeAudioContext = s.realtimeAudioContext
  /\ realtimePlaybackContext = s.realtimePlaybackContext
  /\ elevenLabsWs = s.elevenLabsWs
  /\ realtimeWs = s.realtimeWs
  /\ elevenLabsAudioQueue = s.elevenLabsAudioQueue
  /\ openAiAudioQueue = s.openAiAudioQueue
  /\ isPlayingElevenLabs = s.isPlayingElevenLabs
  /\ isPlayingOpenAi = s.isPlayingOpenAi
  /\ loops = s.loops
  /\ nextId = s.nextId
  /\ payloadData = s.payloadData
  /\ voiceContent = s.voiceContent
  /\ currentUserMsg = s.currentUserMsg
  /\ currentAssistantMsg = s.currentAssistantMsg
  /\ nextText = s.nextText
  /\ lastStartedEl = s.lastStartedEl
  /\ lastStartedOa = s.lastStartedOa
  /\ flushMarkEl = s.flushMarkEl
  /\ flushMarkOa = s.flushMarkOa
  /\ flushRun = s.flushRun
  /\ afterStop = s.afterStop
  /\ sentAfterStop = s.sentAfterStop
  /\ turnText = s.turnText
  /\ droppedAt = s.droppedAt
  /\ thinkingInterval = s.thinkingInterval

Min(a, b) == IF a < b THEN a ELSE b

Max(a, b) == IF a > b THEN a ELSE b

SeqToSet(q) == { q[i] : i \in 1 .. Len(q) }

\* Observation: the task that ran is a user_speaking delivery (which calls the
\* flush), or another task, which ends the run of user_speaking deliveries.
Did(s, e) ==
  [ s EXCEPT !.flushRun = IF e = "user_speaking" THEN Min(@ + 1, MaxRun) ELSE 0 ]

\* The state after the script has run: nothing started; voiceMode is the default or
\* the preference saved in localStorage.
InitialState(v) ==
  [ mode |-> "chat", isListening |-> FALSE, voiceMode |-> v,
    toggleShown |-> FALSE, voiceStatus |-> "", voiceActive |-> FALSE,
    starts |-> 0,
    variantOf |-> [k \in Starts |-> "none"],
    capPc |-> [k \in Starts |-> "none"],
    stream |-> [k \in Starts |-> "none"],
    graph |-> [k \in Starts |-> "none"],
    sock |-> [k \in Starts |-> "none"],
    voiceMediaStream |-> 0, realtimeMediaStream |-> 0,
    audioWorkletNode |-> 0, realtimeScriptProcessor |-> 0,
    elevenLabsAudioContext |-> "null", realtimeAudioContext |-> "null",
    realtimePlaybackContext |-> "null",
    elevenLabsWs |-> 0, realtimeWs |-> 0,
    elevenLabsAudioQueue |-> << >>, openAiAudioQueue |-> << >>,
    isPlayingElevenLabs |-> FALSE, isPlayingOpenAi |-> FALSE,
    loops |-> {}, nextId |-> 1, payloadData |-> << >>,
    voiceContent |-> << >>, currentUserMsg |-> 0, currentAssistantMsg |-> 0,
    nextText |-> 1,
    lastStartedEl |-> 0, lastStartedOa |-> 0, flushMarkEl |-> 0, flushMarkOa |-> 0,
    flushRun |-> 0, afterStop |-> FALSE, sentAfterStop |-> FALSE, turnText |-> << >>,
    droppedAt |-> 0, thinkingInterval |-> [handle |-> FALSE, running |-> 0] ]

\* The script ends with connect(): the first chat socket is connecting.
ChatInit ==
  /\ ws = 1
  /\ chatSock = [k \in ChatSockets |-> IF k = 1 THEN "connecting" ELSE "none"]
  /\ chatSockets = 1
  /\ connectTimers = 0
  /\ clientClosed = [k \in ChatSockets |-> FALSE]
  /\ reconnects = 0
  /\ lastDelay = 0

\* No conversion is under way.
CodecIdle == [pc |-> "idle", float32Array |-> << >>, base64 |-> << >>, float32 |-> << >>]

\* No recorder exists and nothing is being processed.  Recording k is what the
\* k-th mediaRecorder.start() records; a chunk and a blob are known by the
\* recordings they hold.
NotesIdle ==
  [ mediaRecorder |-> "null",   \* "null", or the state of the object it holds (app.js:248)
    inits |-> 0,                \* initRecorder calls awaiting getUserMedia
    audioChunks |-> << >>,      \*                                           (app.js:249)
    events |-> << >>,           \* dataavailable and stop events queued by recorders
    recordings |-> 0,           \* recordings started so far
    isProcessing |-> FALSE,     \*                                           (app.js:245)
    calls |-> {},               \* finishRecording calls suspended on a fetch
    toast |-> "",               \* the text toast() showed last             (app.js:899)
    \* Observation fields, never read by a handler.
    uploaded |-> {},            \* recordings posted to /api/transcribe
    messaged |-> {},            \* recordings whose transcript was sent as a message
    deleted |-> {},             \* recordings discarded with deleteRecording
    reports |-> {} ]            \* the 'Notes transcribed' toasts: [blob, sent]

\* sendToModeSession has not been called.
ModeSessionIdle == [ calls |-> << >>, onThinking |-> 0, onText |-> 0, onError |-> 0,
                     onDone |-> 0 ]

\* The mode sessions a button of the page enters (two of them).
Modes == {"dev", "research"}

\* The chat feed after the script has run: showIntroPage() has taken the transition
\* lock and its animation frame is pending, loadHistoryInBackground() has its fetch
\* in flight.  A message of a history is known by its timestamp, an element of
\* #messages by its class and by the history it was rendered from.
FeedIdle ==
  [ pageState |-> "intro",                     \*                        (app.js:239)
    isTransitioning |-> TRUE,                  \*                        (app.js:485)
    introFrames |-> 1,                         \* pending frames of showIntroPage
    currentSparkMode |-> "null",               \*                        (app.js:260)
    modeHistory |-> [m \in Modes |-> << >>],    \*                        (app.js:261)
    messagesEl |-> << >>,                      \* the .msg and .mode-empty-state elements
    preloadedHistory |-> << >>,                \* null and [] alike      (app.js:417)
    historyRendered |-> FALSE,                 \*                        (app.js:419)
    historyLoads |-> 1,                        \* fetches of /api/messages/all in flight
    lastMessageTimestamp |-> 0,                \*                        (app.js:570)
    enterCalls |-> {},                         \* modes whose enterMode awaits the REST reply
    requests |-> {},                           \* modes requested on the socket, no reply yet
    \* Observation fields, never read by a handler.
    received |-> 0,                            \* chat messages received
    seen |-> 0,                                \* the latest timestamp received
    catchUp |-> 0,                             \* `since` of the last catch_up sent, or 0
    enters |-> 0,                              \* enterMode calls
    textInput |-> "",                          \* textInput.value
    pendingAttachment |-> FALSE,               \* a file is attached     (app.js:2237)
    posts |-> 0,                               \* fetches of send() awaited
    transmitted |-> 0,                         \* messages given to the socket or to fetch
    failed |-> FALSE,                          \* toast 'Failed to send message'
    replaced |-> "null" ]                      \* the mode whose reply last replaced the list

OthersIdle ==
  /\ codec = CodecIdle
  /\ notes = NotesIdle
  /\ modeSession = ModeSessionIdle
  /\ feed = FeedIdle

Init == ChatInit /\ OthersIdle /\ \E v \in Variants : StartsAs(InitialState(v))

(***************************************************************************)
(* Audio contexts.  A capture graph or a playing buffer lives on the       *)
(* context it was created on: tag "cur" is the context the global variable *)
(* holds, tag "leaked" a running context no variable holds any more.       *)
(* close() stops the context's rendering: its capture graph produces no     *)
(* more frames and a buffer playing on it is cut and never reports          *)
(* 'ended'.  An 'ended' event the audio thread had already queued (pc       *)
(* "ended") is still delivered.                                             *)
(***************************************************************************)

\* elevenLabsAudioContext.close()
CloseElevenLabsContext(s) ==
  [ s EXCEPT
      !.elevenLabsAudioContext = "closed",
      !.graph = [k \in Starts |->
                   IF s.variantOf[k] = "elevenlabs" /\ s.graph[k] = "cur"
                   THEN "none" ELSE s.graph[k]],
      !.capPc = [k \in Starts |->
                   IF s.capPc[k] = "loading" THEN "loadingClosed" ELSE s.capPc[k]],
      !.loops = { l \in s.loops :
                    ~(l.kind = "el" /\ l.pc = "playing" /\ l.ctx = "cur") } ]

\* elevenLabsAudioContext = new AudioContext(...): the context held before, if it
\* is running, keeps running with whatever lives on it.
NewElevenLabsContext(s) ==
  [ s EXCEPT
      !.elevenLabsAudioContext = "running",
      !.graph = [k \in Starts |->
                   IF s.variantOf[k] = "elevenlabs" /\ s.graph[k] = "cur"
                   THEN "leaked" ELSE s.graph[k]],
      !.capPc = [k \in Starts |->
                   IF s.capPc[k] \in {"loading", "loadingClosed"}
                   THEN "stale" ELSE s.capPc[k]],
      !.loops = { IF l.kind = "el" /\ l.pc = "playing" /\ l.ctx = "cur"
                  THEN [l EXCEPT !.ctx = "leaked"] ELSE l : l \in s.loops } ]

\* realtimeAudioContext.close(); realtimeAudioContext = null
CloseRealtimeAudioContext(s) ==
  [ s EXCEPT
      !.realtimeAudioContext = "null",
      !.graph = [k \in Starts |->
                   IF s.variantOf[k] = "openai" /\ s.graph[k] = "cur"
                   THEN "none" ELSE s.graph[k]] ]

\* realtimeAudioContext = new AudioContext(...)
NewRealtimeAudioContext(s) ==
  [ s EXCEPT
      !.realtimeAudioContext = "running",
      !.graph = [k \in Starts |->
                   IF s.variantOf[k] = "openai" /\ s.graph[k] = "cur"
                   THEN "leaked" ELSE s.graph[k]] ]

\* realtimePlaybackContext.close(); realtimePlaybackContext = null
ClosePlaybackContext(s) ==
  [ s EXCEPT
      !.realtimePlaybackContext = "null",
      !.loops = { l \in s.loops : ~(l.kind = "pcm" /\ l.pc = "playing") } ]

(***************************************************************************)
(* Playback queues.  A drain function suspended at an await is a record    *)
(* of loops: kind el | pcm | tts, pc playing (buffer on the speaker) |      *)
(* ended (buffer finished, 'ended' task queued) | tail (the 100 ms timer),  *)
(* unit the payload ids of its buffer, acks the audio_playback_ended        *)
(* messages the invocation has sent.                                        *)
(***************************************************************************)

Loop(kind, pc, unit, ctx) ==
  [kind |-> kind, pc |-> pc, unit |-> unit, ctx |-> ctx, acks |-> 0]

\* A base64 string is the sequence of its characters.  The characters of the
\* base64 alphabet, in the order of their values 0 .. 63.
Base64Table ==
  << "A", "B", "C", "D", "E", "F", "G", "H", "I", "J", "K", "L", "M", "N", "O", "P",
     "Q", "R", "S", "T", "U", "V", "W", "X", "Y", "Z", "a", "b", "c", "d", "e", "f",
     "g", "h", "i", "j", "k", "l", "m", "n", "o", "p", "q", "r", "s", "t", "u", "v",
     "w", "x", "y", "z", "0", "1", "2", "3", "4", "5", "6", "7", "8", "9", "+", "/" >>

Base64Alphabet == { Base64Table[i] : i \in 1 .. Len(Base64Table) }

Base64Code ==
  [ c \in Base64Alphabet |-> (CHOOSE i \in 1 .. Len(Base64Table) : Base64Table[i] = c) - 1 ]

Base64Value(c) == Base64Code[c]

\* The bytes of a string of alphabet characters whose length is not 1 modulo 4:
\* four characters give three bytes; of a last group of two (three) characters the
\* last four (two) bits are discarded.
RECURSIVE Base64Bytes(_)
Base64Bytes(str) ==
  CASE Len(str) = 0 -> << >>
    [] Len(str) = 2 ->
         << (Base64Value(str[1]) * 64 + Base64Value(str[2])) \div 16 >>
    [] Len(str) = 3 ->
         LET v == ((Base64Value(str[1]) * 64 + Base64Value(str[2])) * 64
                    + Base64Value(str[3])) \div 4
         IN << v \div 256, v % 256 >>
    [] OTHER ->
         LET v == ((Base64Value(str[1]) * 64 + Base64Value(str[2])) * 64
                    + Base64Value(str[3])) * 64 + Base64Value(str[4])
         IN << v \div 65536, (v \div 256) % 256, v % 256 >>
              \o Base64Bytes(SubSeq(str, 5, Len(str)))

\* atob (forgiving-base64 decode): one or two '=' at the end of a string whose
\* length is a multiple of 4 are removed; a remaining length of 1 modulo 4 or a
\* remaining character outside the alphabet ('=' included) throws
\* InvalidCharacterError.
Atob(str) ==
  LET n == Len(str)
      data == IF n % 4 = 0 /\ n >= 1 /\ str[n] = "="
              THEN IF n >= 2 /\ str[n - 1] = "="
                   THEN SubSeq(str, 1, n - 2)
                   ELSE SubSeq(str, 1, n - 1)
              ELSE str
  IN IF Len(data) % 4 = 1 \/ \E i \in 1 .. Len(data) : data[i] \notin Base64Alphabet
     THEN [ok |-> FALSE, bytes |-> << >>]
     ELSE [ok |-> TRUE, bytes |-> Base64Bytes(data)]

\* Array.prototype.join(''): the strings one after the other.
RECURSIVE Join(_)
Join(strs) == IF strs = << >> THEN << >> ELSE Head(strs) \o Join(Tail(strs))

\* The decode of the drain functions, from the base64 string to the samples: atob,
\* then new Int16Array(bytes.buffer), which throws RangeError unless the number of
\* bytes is a multiple of 2.
DecodePCM16(str) ==
  LET binary == Atob(str)
  IN IF binary.ok /\ Len(binary.bytes) % 2 = 0
     THEN binary
     ELSE [ok |-> FALSE, bytes |-> << >>]

\* btoa of the binary string with the character codes `bytes`: three bytes give
\* four characters; a last group of one (two) bytes gives two (three) characters
\* and '==' ('=').
RECURSIVE Btoa(_)
Btoa(bytes) ==
  CASE Len(bytes) = 0 -> << >>
    [] Len(bytes) = 1 ->
         << Base64Table[(bytes[1] \div 4) + 1], Base64Table[(bytes[1] % 4) * 16 + 1],
            "=", "=" >>
    [] Len(bytes) = 2 ->
         << Base64Table[(bytes[1] \div 4) + 1],
            Base64Table[(bytes[1] % 4) * 16 + (bytes[2] \div 16) + 1],
            Base64Table[(bytes[2] % 16) * 4 + 1], "=" >>
    [] OTHER ->
         << Base64Table[(bytes[1] \div 4) + 1],
            Base64Table[(bytes[1] % 4) * 16 + (bytes[2] \div 16) + 1],
            Base64Table[(bytes[2] % 16) * 4 + (bytes[3] \div 64) + 1],
            Base64Table[(bytes[3] % 64) + 1] >>
           \o Btoa(SubSeq(bytes, 4, Len(bytes)))

\* A sample of a Float32Array is the integer n that stands for the number
\* n / SampleUnit: the samples are the multiples of 2^-16, all of them float32
\* values whose products with 0x7FFF and 0x8000 are exact in double precision.
SampleUnit == 65536

NoClamp(n) == n

\* Math.max(-1, Math.min(1, x))
Clamp(n) == Max(0 - SampleUnit, Min(SampleUnit, n))

\* The conversion of the number n * k / SampleUnit that the assignment to an
\* Int16Array element makes: the fraction is dropped (towards zero) and the
\* integer is taken modulo 2^16 into -32768 .. 32767.  The product is formed on
\* the two parts of n, which keeps it within 32 bits.
ToInt16(n, k) ==
  LET low == (n % SampleUnit) * k
      floor == (n \div SampleUnit) * k + (low \div SampleUnit)
      integer == IF n < 0 /\ low % SampleUnit # 0 THEN floor + 1 ELSE floor
  IN ((integer + 32768) % 65536) - 32768

\* The loop of float32ToPCM16Base64 (and of openAiFloat32ToBase64PCM16, the same
\* code): s < 0 ? s * 0x8000 : s * 0x7FFF, stored into an Int16Array.
Float32ToPCM16(float32Array) ==
  [ i \in 1 .. Len(float32Array) |->
      LET s == Clamp(float32Array[i])
      IN IF s < 0 THEN ToInt16(s, 32768) ELSE ToInt16(s, 32767) ]

\* new Uint8Array(pcm16.buffer): the two bytes of every element, low byte first.
RECURSIVE Int16Bytes(_)
Int16Bytes(pcm16) ==
  IF pcm16 = << >>
  THEN << >>
  ELSE LET u == Head(pcm16) % 65536
       IN << u % 256, u \div 256 >> \o Int16Bytes(Tail(pcm16))

\* new Int16Array(bytes.buffer) on an even number of bytes.
RECURSIVE BytesInt16(_)
BytesInt16(bytes) ==
  IF bytes = << >>
  THEN << >>
  ELSE LET u == bytes[1] + 256 * bytes[2]
       IN << IF u >= 32768 THEN u - 65536 ELSE u >>
            \o BytesInt16(SubSeq(bytes, 3, Len(bytes)))

\* float32ToPCM16Base64 / openAiFloat32ToBase64PCM16
Float32ToPCM16Base64(float32Array) == Btoa(Int16Bytes(Float32ToPCM16(float32Array)))

\* base64PCM16ToFloat32 / openAiBase64PCM16ToFloat32: sample i of the result is the
\* quotient num / den (rounded to float32, which the model leaves out); a string
\* that does not decode throws.
Base64PCM16ToFloat32(base64) ==
  LET binary == DecodePCM16(base64)
      pcm16 == BytesInt16(binary.bytes)
  IN [ ok |-> binary.ok,
       float32 |-> [ i \in 1 .. Len(pcm16) |->
                       [ num |-> pcm16[i],
                         den |-> IF pcm16[i] < 0 THEN 32768 ELSE 32767 ] ] ]

\* The base64 strings of the payloads of a unit.
DataOf(s, unit) == [i \in 1 .. Len(unit) |-> s.payloadData[unit[i]]]

\* A payload of three samples, base64 without padding.
WholeFragment == << "Q", "U", "J", "D", "Q", "U", "J", "D" >>

\* The fragments "QQ==" and "Qg==": the bytes 65 and 66, each padded.
PaddedFragments == { << "Q", "Q", "=", "=" >>, << "Q", "g", "=", "=" >> }

Fragments == {WholeFragment} \cup PaddedFragments

\* An invocation that sends no message.
NotifyNothing(s, l) == l

\* if (realtimeWs && realtimeWs.readyState === WebSocket.OPEN)
\*   realtimeWs.send(JSON.stringify({ type: 'audio_playback_ended' }))
\* sent by the invocation l of playOpenAiAudioQueueTTS.
NotifyPlaybackEnded(s, l) ==
  IF s.realtimeWs # 0 /\ s.sock[s.realtimeWs] = "open"
  THEN [ l EXCEPT !.acks = @ + 1 ]
  ELSE l

\* Taking the newest element instead of the oldest (Array.prototype.pop).
ShiftLast(q) == [item |-> q[Len(q)], rest |-> SubSeq(q, 1, Len(q) - 1)]

\* Array.prototype.shift
Shift(q) == [item |-> Head(q), rest |-> Tail(q)]

\* One evaluation of the while condition of playElevenLabsAudioQueue and, when the
\* queue is not empty, the loop body up to its await.
\* A drain that returns at a payload whose decode throws: the payload is consumed,
\* the rest stays pending and the flag stays set.
ElevenLabsDrainStops(s) ==
  IF s.elevenLabsAudioQueue # << >>
  THEN LET sh == Shift(s.elevenLabsAudioQueue)
       IN IF DecodePCM16(s.payloadData[sh.item]).ok
          THEN [ s EXCEPT !.elevenLabsAudioQueue = sh.rest,
                          !.elevenLabsAudioContext = "running",
                          !.loops = @ \cup {Loop("el", "playing", << sh.item >>, "cur")},
                          !.lastStartedEl = sh.item ]
          ELSE [ s EXCEPT !.elevenLabsAudioQueue = sh.rest ]
  ELSE [ s EXCEPT !.isPlayingElevenLabs = FALSE ]

\* A payload whose decode throws is caught inside the loop body, and the while
\* condition is evaluated again.
RECURSIVE ElevenLabsDrain(_)
ElevenLabsDrain(s) ==
  IF s.elevenLabsAudioQueue # << >>
  THEN LET sh == Shift(s.elevenLabsAudioQueue)
           c == IF s.elevenLabsAudioContext # "running"
                THEN NewElevenLabsContext(s) ELSE s
       IN IF DecodePCM16(s.payloadData[sh.item]).ok
          THEN [ c EXCEPT !.elevenLabsAudioQueue = sh.rest,
                          !.loops = @ \cup {Loop("el", "playing", << sh.item >>, "cur")},
                          !.lastStartedEl = sh.item ]
          ELSE ElevenLabsDrain([ c EXCEPT !.elevenLabsAudioQueue = sh.rest ])
  ELSE [ s EXCEPT !.isPlayingElevenLabs = FALSE ]

PlayElevenLabsAudioQueue(s) ==
  IF s.isPlayingElevenLabs \/ s.elevenLabsAudioQueue = << >>
  THEN s
  ELSE ElevenLabsDrain([s EXCEPT !.isPlayingElevenLabs = TRUE])

\* The same for playOpenAiAudioQueue; `last` is the unit the loop played last.  With
\* the queue empty the function awaits its 100 ms timer.
RECURSIVE OpenAiDrain(_, _)
OpenAiDrain(s, last) ==
  IF s.openAiAudioQueue # << >>
  THEN LET sh == Shift(s.openAiAudioQueue)
       IN IF DecodePCM16(s.payloadData[sh.item]).ok
          THEN [ s EXCEPT !.openAiAudioQueue = sh.rest,
                          !.realtimePlaybackContext = "running",
                          !.loops = @ \cup {Loop("pcm", "playing", << sh.item >>, "cur")},
                          !.lastStartedOa = sh.item ]
          ELSE OpenAiDrain([ s EXCEPT !.openAiAudioQueue = sh.rest,
                                      !.realtimePlaybackContext = "running" ], last)
  ELSE [ s EXCEPT !.loops = @ \cup {Loop("pcm", "tail", last, "none")} ]

PlayOpenAiAudioQueue(s) ==
  IF s.isPlayingOpenAi \/ s.openAiAudioQueue = << >>
  THEN s
  ELSE OpenAiDrain([s EXCEPT !.isPlayingOpenAi = TRUE], << >>)

\* while (openAiAudioQueue.length > 0) ttsAudioBuffer.push(openAiAudioQueue.shift())
RECURSIVE Collect(_, _)
Collect(buffer, q) ==
  IF q = << >> THEN buffer ELSE Collect(Append(buffer, Shift(q).item), Shift(q).rest)

\* The decode of playOpenAiAudioQueueTTS: the strings of the unit joined, then
\* decoded as one string.
DecodeUnit(strs) == DecodePCM16(Join(strs))

\* playOpenAiAudioQueueTTS up to its first await: the whole queue goes through
\* ttsAudioBuffer (empty again when the function suspends) into one buffer, played
\* on a context the function creates for it.  When the decode throws, the catch
\* block notifies the server and the function awaits its 100 ms timer.
PlayOpenAiAudioQueueTTS(s) ==
  IF s.isPlayingOpenAi \/ s.openAiAudioQueue = << >>
  THEN s
  ELSE LET unit == Collect(<< >>, s.openAiAudioQueue)
           c == [ s EXCEPT !.isPlayingOpenAi = TRUE, !.openAiAudioQueue = << >> ]
       IN IF DecodeUnit(DataOf(s, unit)).ok
          THEN [ c EXCEPT !.loops = @ \cup {Loop("tts", "playing", unit, "own")},
                          !.lastStartedOa = unit[Len(unit)] ]
          ELSE [ c EXCEPT !.loops =
                   @ \cup {NotifyPlaybackEnded(s, Loop("tts", "tail", unit, "none"))} ]

StopElevenLabsAudioPlayback(s) ==
  LET f == [ s EXCEPT !.elevenLabsAudioQueue = << >>,
                      !.isPlayingElevenLabs = FALSE ]
  IN IF s.elevenLabsAudioContext = "running" THEN CloseElevenLabsContext(f) ELSE f

\* A flush that stops the playing buffer and leaves the pending payloads.
StopOpenAiAudioPlaybackKeepsQueue(s) ==
  LET f == [ s EXCEPT !.isPlayingOpenAi = FALSE ]
  IN IF s.realtimePlaybackContext # "null" THEN ClosePlaybackContext(f) ELSE f

\* stopOpenAiAudioPlayback
StopOpenAiAudioPlayback(s) ==
  LET f == [ s EXCEPT !.openAiAudioQueue = << >>,
                      !.isPlayingOpenAi = FALSE ]
  IN IF s.realtimePlaybackContext # "null" THEN ClosePlaybackContext(f) ELSE f

KindsOf(variant) == IF variant = "elevenlabs" THEN {"el"} ELSE {"pcm", "tts"}

QueueOf(s, variant) ==
  IF variant = "elevenlabs" THEN s.elevenLabsAudioQueue ELSE s.openAiAudioQueue

\* The payloads of a variant on the speaker.
PlayingIds(s, variant) ==
  UNION { SeqToSet(l.unit) :
            l \in { x \in s.loops : x.pc = "playing" /\ x.kind \in KindsOf(variant) } }

\* Observation: a flush of `variant` runs in state s.  Every payload that arrived
\* before it (id < nextId) is pending or playing at the flush, or has finished.
RecordFlush(s, variant) ==
  IF variant = "elevenlabs"
  THEN [ s EXCEPT !.flushMarkEl = s.nextId ]
  ELSE [ s EXCEPT !.flushMarkOa = s.nextId ]


(***************************************************************************)
(* Sockets and capture.  Start k is the k-th call of startVoice; the        *)
(* WebSocket, the MediaStream and the capture graph that call creates are   *)
(* sock[k], stream[k] and graph[k].                                         *)
(***************************************************************************)

\* new WebSocket(url) assigned to the variant's global
ConnectElevenLabsWebSocket(s, k) ==
  [ s EXCEPT !.elevenLabsWs = k, !.sock[k] = "connecting" ]

ConnectOpenAiRealtime(s, k) ==
  [ s EXCEPT !.realtimeWs = k, !.sock[k] = "connecting" ]

\* WebSocket.send throws InvalidStateError while the socket is CONNECTING.
SendThrows(s, socket) == socket # 0 /\ s.sock[socket] = "connecting"

\* ws.send({type}); ws.close() on a socket that is not CONNECTING: an OPEN socket
\* sends and starts closing, a CLOSING or CLOSED one drops the message.
SendAndClose(s, socket, type) ==
  IF s.sock[socket] = "open"
  THEN [ s EXCEPT !.sock[socket] = "closing" ]
  ELSE s

\* startOpenAiAudioCapture up to its await of getUserMedia
StartOpenAiAudioCapture(s, k) ==
  [ NewRealtimeAudioContext(s) EXCEPT !.capPc[k] = "gum" ]

\* startElevenLabsVoice up to the await of getUserMedia in startElevenLabsAudioCapture
StartElevenLabsVoice(s, k) ==
  [ s EXCEPT !.capPc[k] = "gum" ]

\* A reset that leaves both holders as they are.
KeepMessageState(s) == s

\* currentUserMsg = null; currentAssistantMsg = null
ResetMessageState(s) == [ s EXCEPT !.currentUserMsg = 0, !.currentAssistantMsg = 0 ]

StartVoice(s) ==
  LET k == s.starts + 1
      a == [ ResetMessageState(s)
               EXCEPT !.mode = "voice",
                      !.isListening = TRUE,
                      !.voiceStatus = "Connecting...",
                      !.toggleShown = TRUE,
                      !.starts = k,
                      !.variantOf[k] = s.voiceMode,
                      !.afterStop = FALSE,
                      !.sentAfterStop = FALSE ]
  IN IF s.voiceMode = "elevenlabs"
     THEN StartElevenLabsVoice(a, k)
     ELSE StartOpenAiAudioCapture(ConnectOpenAiRealtime(a, k), k)

\* getUserMedia resolved in startElevenLabsAudioCapture: the stream, a new capture
\* context, then the await of audioWorklet.addModule.
ElevenLabsCaptureGranted(s, k) ==
  [ NewElevenLabsContext(s) EXCEPT !.voiceMediaStream = k,
                                   !.stream[k] = "live",
                                   !.capPc[k] = "loading" ]

\* getUserMedia rejected: the catch of startElevenLabsAudioCapture toasts and returns
\* false, and startElevenLabsVoice returns.
ElevenLabsCaptureDenied(s, k) ==
  [ s EXCEPT !.capPc[k] = "failed" ]

\* addModule settled.  worklet: the AudioWorkletNode was constructed (otherwise the
\* ScriptProcessor fallback runs).  throws: building the nodes on a context that was
\* closed meanwhile throws (browsers differ).  With the global holding no context or
\* another one, connecting the source throws in both paths; a node constructed on the
\* other context before that has no graph, which no handler can tell from null.
ElevenLabsCaptureLoaded(s, k, worklet, throws) ==
  LET node == IF worklet THEN k ELSE s.audioWorkletNode
  IN CASE s.capPc[k] = "loading" ->
            ConnectElevenLabsWebSocket(
              [ s EXCEPT !.graph[k] = "cur",
                         !.audioWorkletNode = node,
                         !.capPc[k] = "done" ], k)
       [] s.capPc[k] = "loadingClosed" /\ ~throws ->
            ConnectElevenLabsWebSocket(
              [ s EXCEPT !.audioWorkletNode = node,
                         !.capPc[k] = "done" ], k)
       [] s.capPc[k] = "stale" /\ worklet /\ s.elevenLabsAudioContext = "running" ->
            [ s EXCEPT !.audioWorkletNode = 0, !.capPc[k] = "failed" ]
       [] OTHER ->
            [ s EXCEPT !.capPc[k] = "failed" ]

\* getUserMedia resolved in startOpenAiAudioCapture: with realtimeAudioContext null
\* createMediaStreamSource throws into the outer catch; otherwise the graph is built
\* on the context the global holds now.
OpenAiCaptureGranted(s, k) ==
  LET a == [ s EXCEPT !.realtimeMediaStream = k, !.stream[k] = "live" ]
  IN IF s.realtimeAudioContext = "null"
     THEN [ a EXCEPT !.capPc[k] = "failed" ]
     ELSE [ a EXCEPT !.graph[k] = "cur",
                     !.realtimeScriptProcessor = k,
                     !.capPc[k] = "done" ]

\* getUserMedia rejected in startOpenAiAudioCapture
OpenAiCaptureDenied(s, k) ==
  [ (IF s.realtimeAudioContext # "null" THEN CloseRealtimeAudioContext(s) ELSE s)
      EXCEPT !.capPc[k] = "failed" ]

\* The capture callback's test: the variant's socket exists and is OPEN.
CanSend(s, variant) ==
  LET socket == IF variant = "elevenlabs" THEN s.elevenLabsWs ELSE s.realtimeWs
  IN socket # 0 /\ s.sock[socket] = "open"

StopElevenLabsVoice(s) ==
  LET a == IF s.voiceMediaStream # 0
           THEN [ s EXCEPT !.stream[s.voiceMediaStream] = "stopped",
                           !.voiceMediaStream = 0 ]
           ELSE s
      b == IF a.audioWorkletNode # 0
           THEN [ a EXCEPT !.graph[a.audioWorkletNode] = "none",
                           !.audioWorkletNode = 0 ]
           ELSE a
      c == IF b.elevenLabsAudioContext = "running"
           THEN [ CloseElevenLabsContext(b) EXCEPT !.elevenLabsAudioContext = "null" ]
           ELSE b
      d == StopElevenLabsAudioPlayback(c)
  IN CASE SendThrows(d, d.elevenLabsWs) -> d
       [] d.elevenLabsWs = 0 -> ResetMessageState(d)
       [] OTHER ->
            ResetMessageState(
              [ SendAndClose(d, d.elevenLabsWs, "end") EXCEPT !.elevenLabsWs = 0 ])

StopOpenAiVoice(s) ==
  LET a == IF s.realtimeMediaStream # 0
           THEN [ s EXCEPT !.stream[s.realtimeMediaStream] = "stopped",
                           !.realtimeMediaStream = 0 ]
           ELSE s
      b == IF a.realtimeScriptProcessor # 0
           THEN [ a EXCEPT !.graph[a.realtimeScriptProcessor] = "none",
                           !.realtimeScriptProcessor = 0 ]
           ELSE a
      c == IF b.realtimeAudioContext # "null" THEN CloseRealtimeAudioContext(b) ELSE b
      d == StopOpenAiAudioPlayback(c)
  IN CASE SendThrows(d, d.realtimeWs) -> d
       [] d.realtimeWs = 0 -> ResetMessageState(d)
       [] OTHER ->
            ResetMessageState(
              [ SendAndClose(d, d.realtimeWs, "stop") EXCEPT !.realtimeWs = 0 ])

\* playWaitingSound(), without the pulses
PlayWaitingSound(s) ==
  IF s.thinkingInterval.handle
  THEN s
  ELSE [ s EXCEPT !.thinkingInterval = [handle |-> TRUE, running |-> @.running + 1] ]

\* stopWaitingSound()
StopWaitingSound(s) ==
  IF s.thinkingInterval.handle
  THEN [ s EXCEPT !.thinkingInterval = [handle |-> FALSE, running |-> @.running - 1] ]
  ELSE s

\* stopVoice.  When the send in stopElevenLabsVoice / stopOpenAiVoice throws, the
\* exception ends the click handler there: what follows the send does not run.
StopVoice(s) ==
  LET a == [ s EXCEPT !.isListening = FALSE,
                      !.toggleShown = FALSE,
                      !.voiceActive = FALSE ]
      threw == SendThrows(s, IF s.voiceMode = "elevenlabs"
                             THEN s.elevenLabsWs ELSE s.realtimeWs)
      b == IF s.voiceMode = "elevenlabs"
           THEN StopElevenLabsVoice(a) ELSE StopOpenAiVoice(a)
  IN IF threw
     THEN b
     ELSE [ StopWaitingSound(b) EXCEPT !.mode = "chat", !.afterStop = TRUE,
                                       !.sentAfterStop = FALSE ]

\* The focus handler of the text input: if (isListening) stopVoice(); mode = 'chat'.
\* An exception of stopVoice ends the handler before the assignment.
TextInputFocus(s) ==
  IF ~s.isListening
  THEN [ s EXCEPT !.mode = "chat" ]
  ELSE StopVoice(s)

(***************************************************************************)
(* Message handlers.  Of each handler the cases that touch the modelled     *)
(* state are modelled; `id` is the payload of an audio message.             *)
(***************************************************************************)

\* voiceBar.classList.toggle('speaking', active)
SetVoiceActive(s, active) == [ s EXCEPT !.voiceActive = active ]

UpdateVoiceStatus(s, text) == [ s EXCEPT !.voiceStatus = text ]

\* The message element with the given id.
Element(s, id) == CHOOSE e \in SeqToSet(s.voiceContent) : e.id = id

NewElement(s, role, text, thinking) ==
  [id |-> Len(s.voiceContent) + 1, role |-> role, text |-> text, thinking |-> thinking]

\* Replace the element that has e's id by e.
SetElement(s, e) ==
  [ s EXCEPT !.voiceContent =
      [i \in 1 .. Len(@) |-> IF @[i].id = e.id THEN e ELSE @[i]] ]

\* addVoiceMessage(role, text): a new element at the end of #voice-content
AddVoiceMessage(s, role, text, thinking) ==
  [ s EXCEPT !.voiceContent = Append(@, NewElement(s, role, text, thinking)) ]

\* voiceContent.insertBefore(userMsg, currentAssistantMsg)
InsertBefore(content, e, id) ==
  LET i == CHOOSE j \in 1 .. Len(content) : content[j].id = id
  IN SubSeq(content, 1, i - 1) \o << e >> \o SubSeq(content, i, Len(content))

\* The user's transcript with every new element placed at the end.
UserTranscriptAppended(s, text, beforeAssistant) ==
  IF s.currentUserMsg = 0
  THEN LET e == NewElement(s, "user", << text >>, FALSE)
       IN [ s EXCEPT !.voiceContent = Append(@, e), !.currentUserMsg = e.id ]
  ELSE SetElement(s, [ Element(s, s.currentUserMsg) EXCEPT !.text = << text >> ])

\* The user's transcript: a new element when currentUserMsg is null (in the OpenAI
\* handler placed before the element currentAssistantMsg holds), else the text of
\* the element it holds is replaced.
UserTranscript(s, text, beforeAssistant) ==
  IF s.currentUserMsg = 0
  THEN LET e == NewElement(s, "user", << text >>, FALSE)
       IN [ s EXCEPT !.voiceContent =
                       IF beforeAssistant /\ s.currentAssistantMsg # 0
                       THEN InsertBefore(@, e, s.currentAssistantMsg)
                       ELSE Append(@, e),
                     !.currentUserMsg = e.id ]
  ELSE SetElement(s, [ Element(s, s.currentUserMsg) EXCEPT !.text = << text >> ])

\* The assistant's text: a new element when currentAssistantMsg is null, else the
\* text of the element it holds is replaced (append: extended) and its class
\* 'thinking' removed.
AssistantText(s, text, append) ==
  IF s.currentAssistantMsg = 0
  THEN [ AddVoiceMessage(s, "assistant", << text >>, FALSE)
           EXCEPT !.currentAssistantMsg = Len(s.voiceContent) + 1 ]
  ELSE SetElement(s, [ Element(s, s.currentAssistantMsg)
                         EXCEPT !.text = IF append THEN Append(@, text) ELSE << text >>,
                                !.thinking = FALSE ])

\* The 'thinking' placeholder of tool_call: only when currentAssistantMsg is null.
ThinkingMessage(s, text) ==
  IF s.currentAssistantMsg = 0
  THEN [ AddVoiceMessage(s, "assistant", << text >>, TRUE)
           EXCEPT !.currentAssistantMsg = Len(s.voiceContent) + 1 ]
  ELSE s

\* The status message of 'processing': a new 'thinking' element, or the element
\* currentAssistantMsg holds with its text replaced and marked 'thinking'.
ProcessingMessage(s, text) ==
  IF s.currentAssistantMsg = 0
  THEN ThinkingMessage(s, text)
  ELSE SetElement(s, [ Element(s, s.currentAssistantMsg)
                         EXCEPT !.text = << text >>, !.thinking = TRUE ])

HandleElevenLabsMessage(s, type, id) ==
  CASE type = "ready" -> UpdateVoiceStatus(s, "Listening")
    [] type = "transcript" ->
         [ UserTranscript(s, s.nextText, FALSE) EXCEPT !.nextText = @ + 1 ]
    [] type = "text" ->
         [ UpdateVoiceStatus(AssistantText(s, s.nextText, FALSE), "Speaking...")
             EXCEPT !.nextText = @ + 1 ]
    [] type = "audio" ->
         PlayElevenLabsAudioQueue(
           [ s EXCEPT !.elevenLabsAudioQueue = Append(@, id), !.nextId = id + 1 ])
    [] type = "interruption" -> ResetMessageState(StopElevenLabsAudioPlayback(s))
    [] type = "tool_call" ->
         [ ThinkingMessage(UpdateVoiceStatus(s, "Checking..."), s.nextText)
             EXCEPT !.nextText = @ + 1 ]
    [] OTHER -> s

HandleOpenAiRealtimeMessage(s, type, id) ==
  CASE type = "ready" -> UpdateVoiceStatus(s, "Listening")
    [] type = "user_speaking" ->
         ResetMessageState(
           StopWaitingSound(
             StopOpenAiAudioPlayback(
               UpdateVoiceStatus(SetVoiceActive(s, TRUE), "Hearing you..."))))
    [] type = "user_stopped" ->
         PlayWaitingSound(UpdateVoiceStatus(SetVoiceActive(s, FALSE), "Processing..."))
    [] type = "transcript" ->
         PlayWaitingSound(
           [ UserTranscript(StopWaitingSound(s), s.nextText, TRUE)
               EXCEPT !.nextText = @ + 1 ])
    [] type = "processing" ->
         [ ProcessingMessage(PlayWaitingSound(UpdateVoiceStatus(s, "Checking...")),
                             s.nextText)
             EXCEPT !.nextText = @ + 1 ]
    [] type = "text_delta" ->
         [ AssistantText(UpdateVoiceStatus(StopWaitingSound(s), "Speaking..."),
                         s.nextText, TRUE)
             EXCEPT !.nextText = @ + 1 ]
    [] type = "text" ->
         [ AssistantText(StopWaitingSound(s), s.nextText, FALSE)
             EXCEPT !.nextText = @ + 1 ]
    [] type = "tts_start" -> StopWaitingSound(UpdateVoiceStatus(s, "Speaking..."))
    [] type = "audio_chunk" ->
         PlayOpenAiAudioQueueTTS(
           [ UpdateVoiceStatus(StopWaitingSound(s), "Speaking...")
               EXCEPT !.openAiAudioQueue = Append(@, id), !.nextId = id + 1 ])
    [] type = "audio_delta" ->
         PlayOpenAiAudioQueue(
           [ UpdateVoiceStatus(StopWaitingSound(s), "Speaking...")
               EXCEPT !.openAiAudioQueue = Append(@, id), !.nextId = id + 1 ])
    [] type = "tool_call" ->
         PlayWaitingSound(
           [ ThinkingMessage(UpdateVoiceStatus(s, "Checking..."), s.nextText)
               EXCEPT !.nextText = @ + 1 ])
    [] type = "done" ->
         UpdateVoiceStatus(ResetMessageState(StopWaitingSound(s)), "Listening")
    [] type = "error" -> UpdateVoiceStatus(StopWaitingSound(s), "Error")
    [] OTHER -> s

\* The messages that touch the session, the playback queue and the status.
ElevenLabsTypes == {"ready", "audio", "interruption"}
OpenAiTypes ==
  {"ready", "user_speaking", "user_stopped", "audio_chunk", "audio_delta", "done"}
AudioTypes == {"audio", "audio_chunk", "audio_delta"}
FlushTypes == {"interruption", "user_speaking"}

\* The error control of the backend.  Both handlers show its message in the toast
\* element, which is not part of this state; the ElevenLabs handler does nothing
\* else.
ErrorTypes == {"error"}

\* The messages that carry a text for the transcript; each carries the next text.
TextTypes == {"transcript", "text", "text_delta", "processing", "tool_call"}

\* The messages of a turn: its texts, its audio, barge-in and the control that ends
\* it ('done' in the OpenAI handler; the ElevenLabs handler knows
\* 'conversation_ended' and 'session_ended').  The OpenAI turn is that of the
\* hybrid mode, whose audio arrives as audio_chunk.
ElevenLabsTurnTypes ==
  {"transcript", "text", "tool_call", "audio", "interruption", "conversation_ended"}
OpenAiTurnTypes ==
  {"transcript", "processing", "text_delta", "text", "audio_chunk",
   "user_speaking", "done"}

\* The capture callback of graph k (port.onmessage / onaudioprocess).  The OpenAI
\* callback sends only frames with volume > 0.001, and a stopped stream delivers
\* silence.
CaptureCallbackSendsUnguarded(s, k, loud) ==
  IF s.variantOf[k] = "elevenlabs"
  THEN s.elevenLabsWs # 0
  ELSE s.realtimeWs # 0 /\ loud /\ s.stream[k] = "live"

CaptureCallbackSends(s, k, loud) ==
  IF s.variantOf[k] = "elevenlabs"
  THEN CanSend(s, "elevenlabs")
  ELSE CanSend(s, "openai") /\ loud /\ s.stream[k] = "live"

CaptureCallback(s, k, loud) ==
  IF CaptureCallbackSends(s, k, loud)
  THEN [ s EXCEPT !.sentAfterStop = s.afterStop ]
  ELSE s

\* Continuation of a drain function after its buffer's 'ended' event.
OnEnded(s, l) ==
  LET r == [ s EXCEPT !.loops = @ \ {l} ]
  IN CASE l.kind = "el" -> ElevenLabsDrain(r)
       [] l.kind = "pcm" -> OpenAiDrain(r, l.unit)
       [] OTHER ->
            [ r EXCEPT !.loops =
                @ \cup {NotifyPlaybackEnded(s, Loop("tts", "tail", l.unit, "none"))} ]

\* Continuation after the 100 ms timer of playOpenAiAudioQueue(TTS).
OnTailTimer(s, l) ==
  [ s EXCEPT !.loops = @ \ {l}, !.isPlayingOpenAi = FALSE ]

(***************************************************************************)
(* Actions: the tasks of the event loop.                                    *)
(***************************************************************************)

StartVoiceClick(maxStarts) ==
  /\ starts < maxStarts
  /\ Becomes(Did(StartVoice(Cur), "startVoice"))

StopVoiceClick ==
  Becomes(Did(StopVoice(RecordFlush(Cur, voiceMode)), "stopVoice"))

\* Click on a button of the voice mode toggle, which exists between startVoice and
\* stopVoice.
ToggleClick ==
  /\ toggleShown
  /\ \E v \in Variants : Becomes(Did([Cur EXCEPT !.voiceMode = v], "toggle"))

CaptureGranted ==
  \E k \in Starts :
    /\ capPc[k] = "gum"
    /\ Becomes(Did(IF variantOf[k] = "elevenlabs"
                   THEN ElevenLabsCaptureGranted(Cur, k)
                   ELSE OpenAiCaptureGranted(Cur, k), "captureGranted"))

CaptureDenied ==
  \E k \in Starts :
    /\ capPc[k] = "gum"
    /\ Becomes(Did(IF variantOf[k] = "elevenlabs"
                   THEN ElevenLabsCaptureDenied(Cur, k)
                   ELSE OpenAiCaptureDenied(Cur, k), "captureDenied"))

CaptureLoaded ==
  \E k \in Starts, worklet \in BOOLEAN, throws \in BOOLEAN :
    /\ capPc[k] \in {"loading", "loadingClosed", "stale"}
    /\ Becomes(Did(ElevenLabsCaptureLoaded(Cur, k, worklet, throws), "captureLoaded"))

CaptureFrame ==
  \E k \in Starts, loud \in BOOLEAN :
    /\ graph[k] \in {"cur", "leaked"}
    /\ Becomes(Did(CaptureCallback(Cur, k, loud), "frame"))

SocketOpens ==
  \E k \in Starts :
    /\ sock[k] = "connecting"
    /\ Becomes(Did(UpdateVoiceStatus([Cur EXCEPT !.sock[k] = "open"], "Starting..."),
                   "socketOpen"))

\* The socket closes (close handshake done, connection lost or refused); onclose and
\* onerror only toast.
SocketCloses ==
  \E k \in Starts :
    /\ sock[k] \in {"connecting", "open", "closing"}
    /\ Becomes(Did([Cur EXCEPT !.sock[k] = "closed"], "socketClose"))

\* The audio message being handled is payload nextId and carries the string data
\* (msg.data, msg.audio_base_64).
Carrying(s, data) == [ s EXCEPT !.payloadData = Append(@, data) ]

\* Observation: the message being handled carries the text s.nextText.  A full text
\* replaces the assistant's text of the turn, a delta extends it; the turn ends with
\* the control that ends it and with a barge-in.
RecordText(s, type) ==
  CASE type = "text" -> [ s EXCEPT !.turnText = << s.nextText >> ]
    [] type = "text_delta" -> [ s EXCEPT !.turnText = Append(@, s.nextText) ]
    [] type \in FlushTypes \cup {"done"} -> [ s EXCEPT !.turnText = << >> ]
    [] OTHER -> s

\* The data of a message event: a text that is no JSON, the JSON text null, or the
\* JSON text of an object with a type and, in an audio message, its data.
Wire(json, type, data) == [json |-> json, type |-> type, data |-> data]

WireKinds == {"malformed", "null", "object"}

\* JSON.parse(event.data): throws SyntaxError for a text that is no JSON.
JsonParse(wire) == [ok |-> wire.json # "malformed", isObject |-> wire.json = "object"]

\* Observation: the catch block of onmessage has run.
Dropped(s) == [ s EXCEPT !.droppedAt = s.nextId ]

\* A version of realtimeWs.onmessage whose catch block closes the socket.
OpenAiOnMessageClosing(s, wire) ==
  IF JsonParse(wire).ok /\ JsonParse(wire).isObject
  THEN HandleOpenAiRealtimeMessage(
         IF wire.type \in AudioTypes THEN Carrying(s, wire.data) ELSE s,
         wire.type, s.nextId)
  ELSE [ Dropped(s) EXCEPT !.sock = [k \in Starts |->
                                      IF k = s.realtimeWs THEN "closed" ELSE @[k]] ]

\* elevenLabsWs.onmessage: try { handleElevenLabsMessage(JSON.parse(event.data)) }
\* catch (e) { console.error(...) }.  The handler reads msg.type first, which throws
\* for null.
ElevenLabsOnMessage(s, wire) ==
  IF JsonParse(wire).ok /\ JsonParse(wire).isObject
  THEN HandleElevenLabsMessage(
         IF wire.type \in AudioTypes THEN Carrying(s, wire.data) ELSE s,
         wire.type, s.nextId)
  ELSE Dropped(s)

\* realtimeWs.onmessage
OpenAiOnMessage(s, wire) ==
  IF JsonParse(wire).ok /\ JsonParse(wire).isObject
  THEN HandleOpenAiRealtimeMessage(
         IF wire.type \in AudioTypes THEN Carrying(s, wire.data) ELSE s,
         wire.type, s.nextId)
  ELSE Dropped(s)

\* A message event is dispatched only while the socket is OPEN.
ElevenLabsMessage(types, maxPayloads, fragments) ==
  \E k \in Starts,
     type \in types \cap (ElevenLabsTypes \cup ElevenLabsTurnTypes \cup ErrorTypes),
     data \in fragments :
    /\ sock[k] = "open"
    /\ variantOf[k] = "elevenlabs"
    /\ type \in AudioTypes => nextId <= maxPayloads
    /\ type \in TextTypes => nextText <= MaxTexts
    /\ type \notin AudioTypes => data = WholeFragment
    /\ LET s == RecordText(IF type \in FlushTypes
                          THEN RecordFlush(Cur, "elevenlabs") ELSE Cur, type)
       IN Becomes(Did(ElevenLabsOnMessage(s, Wire("object", type, data)), type))

OpenAiMessage(types, maxPayloads, fragments) ==
  \E k \in Starts,
     type \in types \cap (OpenAiTypes \cup OpenAiTurnTypes \cup ErrorTypes),
     data \in fragments :
    /\ sock[k] = "open"
    /\ variantOf[k] = "openai"
    /\ type \in AudioTypes => nextId <= maxPayloads
    /\ type \in TextTypes => nextText <= MaxTexts
    /\ type \notin AudioTypes => data = WholeFragment
    /\ LET s == RecordText(IF type \in FlushTypes
                          THEN RecordFlush(Cur, "openai") ELSE Cur, type)
       IN Becomes(Did(OpenAiOnMessage(s, Wire("object", type, data)), type))

\* A message event whose data do not parse to an object.
UnparsedMessage ==
  \E k \in Starts, json \in WireKinds \ {"object"} :
    /\ sock[k] = "open"
    /\ LET wire == Wire(json, "ready", WholeFragment)
       IN Becomes(Did(IF variantOf[k] = "elevenlabs"
                      THEN ElevenLabsOnMessage(Cur, wire)
                      ELSE OpenAiOnMessage(Cur, wire), "unparsed"))

\* The audio thread finishes a buffer and queues its 'ended' event.
BufferEnds ==
  \E l \in loops :
    /\ l.pc = "playing"
    /\ Becomes(Did([Cur EXCEPT !.loops = (@ \ {l})
                                  \cup {Loop(l.kind, "ended", l.unit, "none")}],
                   "bufferEnd"))

PlaybackEnded ==
  \E l \in loops :
    /\ l.pc = "ended"
    /\ Becomes(Did(OnEnded(Cur, l), "ended"))

TailTimer ==
  \E l \in loops :
    /\ l.pc = "tail"
    /\ Becomes(Did(OnTailTimer(Cur, l), "tailTimer"))

(***************************************************************************)
(* The chat feed.  The handlers are functions of the record `feed`.         *)
(***************************************************************************)

\* The elements a history renders: one .msg element for each of its messages
\* (every message of a history has a text).
Rendered(history, from) ==
  [ i \in 1 .. Len(history) |-> [class |-> "msg", from |-> from] ]

\* renderPreloadedHistory(): the preloaded history is appended to #messages.
RenderPreloadedHistory(f) ==
  IF f.historyRendered \/ f.preloadedHistory = << >>
  THEN f
  ELSE [ f EXCEPT !.historyRendered = TRUE,
                  !.messagesEl = @ \o Rendered(f.preloadedHistory, "main") ]

\* renderChatHistory()
RenderChatHistory(f) ==
  IF f.historyRendered \/ f.preloadedHistory = << >>
  THEN f
  ELSE RenderPreloadedHistory(f)

\* showChatFeedPage()
ShowChatFeedPage(f) ==
  IF f.isTransitioning
  THEN f
  ELSE LET a == [ f EXCEPT !.pageState = "chatfeed" ]
       IN IF ~a.historyRendered /\ a.currentSparkMode = "null"
          THEN RenderChatHistory(a)
          ELSE a

\* addMessage(role, text) for a text that is not empty; `from` is where the
\* message comes from: a mode's history, or "live" for a message just received.
AddMessage(f, from) ==
  LET a == IF f.pageState = "intro" THEN ShowChatFeedPage(f) ELSE f
  IN [ a EXCEPT !.messagesEl = Append(@, [class |-> "msg", from |-> from]) ]

RECURSIVE AddMessages(_, _, _)
AddMessages(f, from, n) ==
  IF n = 0 THEN f ELSE AddMessages(AddMessage(f, from), from, n - 1)

\* renderModeHistory(modeName): every .msg and .mode-empty-state element is removed,
\* then the cached history of the mode is rendered, or its empty state.
RenderModeHistory(f, modeName) ==
  LET a == [ f EXCEPT !.messagesEl = << >>, !.replaced = modeName ]
  IN IF f.modeHistory[modeName] = << >>
     THEN [ a EXCEPT !.messagesEl = << [class |-> "mode-empty-state", from |-> modeName] >> ]
     ELSE AddMessages(a, modeName, Len(f.modeHistory[modeName]))

\* The animation frame callback of showIntroPage().
IntroFrame(f) ==
  [ f EXCEPT !.pageState = "intro", !.currentSparkMode = "null",
             !.isTransitioning = FALSE, !.introFrames = @ - 1 ]

\* enterMode(modeName) up to the end of its task: with the chat socket OPEN,
\* loadModeHistory sends the request and enterMode renders what the cache holds;
\* otherwise it awaits the REST reply.
EnterMode(f, modeName, wsOpen) ==
  LET a == ShowChatFeedPage([ f EXCEPT !.currentSparkMode = modeName,
                                       !.enters = @ + 1 ])
  IN IF wsOpen
     THEN RenderModeHistory([ a EXCEPT !.requests = @ \cup {modeName} ], modeName)
     ELSE [ a EXCEPT !.enterCalls = @ \cup {modeName} ]

\* enterMode after the REST reply (a failure leaves the history empty): the rest of
\* loadModeHistory, then renderModeHistory(modeName).
EnterModeResumes(f, modeName, messages) ==
  RenderModeHistory([ f EXCEPT !.enterCalls = @ \ {modeName},
                               !.modeHistory[modeName] = messages ], modeName)

\* exitMode()
ExitMode(f) ==
  LET a == [ f EXCEPT !.currentSparkMode = "null", !.historyRendered = FALSE ]
  IN IF a.pageState = "chatfeed" THEN RenderChatHistory(a) ELSE a

\* handleMessage, case 'mode_history'
HandleModeHistory(f, sparkMode, messages) ==
  LET a == [ f EXCEPT !.requests = @ \ {sparkMode},
                      !.modeHistory[sparkMode] = messages ]
  IN IF a.currentSparkMode = sparkMode THEN RenderModeHistory(a, sparkMode) ELSE a

\* String.prototype.trim on the values of the text input.
Trim(value) == IF value = " " THEN "" ELSE value

\* send(text) without `if (isProcessing) return`.
SendWhileProcessing(f, isProcessing, text, wsOpen) ==
  IF text = "" /\ ~f.pendingAttachment
  THEN [feed |-> f, isProcessing |-> isProcessing]
  ELSE LET a == IF text # "" THEN AddMessage(f, "user") ELSE f
           b == [ a EXCEPT !.transmitted = @ + 1 ]
       IN [ feed |-> IF b.pendingAttachment \/ ~wsOpen
                     THEN [ b EXCEPT !.posts = @ + 1 ]
                     ELSE b,
            isProcessing |-> TRUE ]

\* send(text, messageMode) up to its first await: the user's message is added to
\* the list, isProcessing is set and the message is given to fetch (with the
\* attachment, or without an OPEN chat socket) or to the chat socket.
Send(f, isProcessing, text, wsOpen) ==
  IF text = "" /\ ~f.pendingAttachment
  THEN [feed |-> f, isProcessing |-> isProcessing]
  ELSE IF isProcessing
  THEN [feed |-> f, isProcessing |-> isProcessing]
  ELSE LET a == IF text # "" THEN AddMessage(f, "user") ELSE f
           b == [ a EXCEPT !.transmitted = @ + 1 ]
       IN [ feed |-> IF b.pendingAttachment \/ ~wsOpen
                     THEN [ b EXCEPT !.posts = @ + 1 ]
                     ELSE b,
            isProcessing |-> TRUE ]

\* send after its fetch: clearPendingAttachment(), or the catch block.
SendResumes(f, isProcessing, ok) ==
  IF ok
  THEN [ feed |-> [ f EXCEPT !.posts = @ - 1, !.pendingAttachment = FALSE ],
         isProcessing |-> isProcessing ]
  ELSE [ feed |-> [ f EXCEPT !.posts = @ - 1, !.failed = TRUE ],
         isProcessing |-> FALSE ]

\* submitText()
SubmitText(f, isProcessing, wsOpen) ==
  LET text == Trim(f.textInput)
  IN IF text = "" \/ isProcessing
     THEN [feed |-> f, isProcessing |-> isProcessing]
     ELSE Send([ f EXCEPT !.textInput = "" ], isProcessing, text, wsOpen)

\* lastMessageTimestamp = timestamp without the comparison.
SetTimestamp(f, timestamp) ==
  [ f EXCEPT !.lastMessageTimestamp = IF timestamp # 0 THEN timestamp ELSE @,
             !.seen = Max(@, timestamp) ]

\* A timestamp raises lastMessageTimestamp; 0 is a message without one.
RaiseTimestamp(f, timestamp) ==
  [ f EXCEPT !.lastMessageTimestamp =
               IF timestamp # 0 /\ timestamp > @ THEN timestamp ELSE @,
             !.seen = Max(@, timestamp) ]

\* handleNewMessage(msg), without setProcessing(false): the timestamp, the new
\* element on the chat feed page outside the modes, and refreshHistoryCache().
HandleNewMessage(f, timestamp) ==
  LET a == RaiseTimestamp([ f EXCEPT !.received = @ + 1 ], timestamp)
      b == IF a.pageState = "chatfeed" /\ a.currentSparkMode = "null"
           THEN AddMessage(a, "live")
           ELSE a
  IN [ b EXCEPT !.historyRendered = FALSE, !.historyLoads = @ + 1 ]

\* The then-callback of loadHistoryInBackground (the catch-callback when the fetch
\* failed, which leaves the history empty).
HistoryLoaded(f, messages) ==
  LET a == [ f EXCEPT !.historyLoads = @ - 1, !.preloadedHistory = messages ]
  IN IF messages = << >> THEN a ELSE RaiseTimestamp(a, messages[Len(messages)])

\* ws.onopen without setProcessing(false): the catch_up request.
RequestCatchUp(f) ==
  IF f.lastMessageTimestamp > 0 THEN [ f EXCEPT !.catchUp = f.lastMessageTimestamp ] ELSE f

(***************************************************************************)
(* The chat socket and the page lifecycle.  Chat socket k is the k-th       *)
(* WebSocket connect() creates.                                             *)
(***************************************************************************)

\* The codes a close event can carry: 1000 (the peer's close frame says normal
\* closure), 1005 (a close frame without a status code, which is what close() with
\* no argument sends and the peer echoes), 1006 (the connection was lost).
CloseCodes == {1000, 1005, 1006}

ConnectSkipsWhileOpen == ws # 0 /\ chatSock[ws] = "open"

\* connect() returns at once while ws is OPEN or CONNECTING.
ConnectSkips == ws # 0 /\ chatSock[ws] \in {"open", "connecting"}

\* connect()
Connect ==
  IF ConnectSkips
  THEN UNCHANGED << ws, chatSock, chatSockets >>
  ELSE /\ chatSockets < MaxChatSockets
       /\ chatSockets' = chatSockets + 1
       /\ ws' = chatSockets + 1
       /\ chatSock' = [chatSock EXCEPT ![chatSockets + 1] = "connecting"]

\* ws.onopen
ChatOpens ==
  \E k \in ChatSockets :
    /\ chatSock[k] = "connecting"
    /\ chatSock' = [chatSock EXCEPT ![k] = "open"]
    /\ reconnects' = 0
    /\ UNCHANGED << ws, chatSockets, connectTimers, clientClosed, lastDelay >>
    /\ VoiceVarsBecome(Cur)
    /\ notes' = [notes EXCEPT !.isProcessing = FALSE]
    /\ feed' = RequestCatchUp(feed)
    /\ UNCHANGED << codec, modeSession >>

\* ws.onclose: the socket closed with `code`; a code other than 1000 sets the
\* reconnect timer.
ChatCloses ==
  \E k \in ChatSockets, code \in CloseCodes :
    /\ chatSock[k] \in {"connecting", "open", "closing"}
    /\ chatSock' = [chatSock EXCEPT ![k] = "closed"]
    /\ IF code # 1000
       THEN /\ connectTimers' = connectTimers + 1
            /\ reconnects' = reconnects + 1
            /\ lastDelay' = ReconnectDelay
       ELSE UNCHANGED << connectTimers, reconnects, lastDelay >>
    /\ UNCHANGED << ws, chatSockets, clientClosed >>
    /\ VoiceBecomes(Cur)

\* A reconnect timer fires: connect()
ConnectTimer ==
  /\ connectTimers > 0
  /\ connectTimers' = connectTimers - 1
  /\ Connect
  /\ UNCHANGED << clientClosed, reconnects, lastDelay >>
  /\ VoiceBecomes(Cur)

\* visibilitychange with the page visible again: connect() when there is no chat
\* socket or it is CLOSED.
PageVisible ==
  /\ IF ws = 0 \/ chatSock[ws] = "closed"
     THEN Connect
     ELSE UNCHANGED << ws, chatSock, chatSockets >>
  /\ UNCHANGED << connectTimers, clientClosed, reconnects, lastDelay >>
  /\ VoiceBecomes(Cur)

\* beforeunload: stopVoice() when listening, releaseMicrophone() (the recorder's
\* stream), ws.close().  An exception in stopVoice ends the handler.  The page may
\* stay (the navigation is cancelled or turns out to be a download).
BeforeUnload ==
  LET throws == isListening /\ SendThrows(Cur, IF voiceMode = "elevenlabs"
                                                THEN elevenLabsWs ELSE realtimeWs)
  IN /\ VoiceBecomes(IF isListening
                     THEN Did(StopVoice(RecordFlush(Cur, voiceMode)), "stopVoice")
                     ELSE Cur)
     /\ IF ~throws /\ ws # 0 /\ chatSock[ws] \in {"connecting", "open"}
        THEN /\ chatSock' = [chatSock EXCEPT ![ws] = "closing"]
             /\ clientClosed' = [clientClosed EXCEPT ![ws] = TRUE]
        ELSE UNCHANGED << chatSock, clientClosed >>
     /\ UNCHANGED << ws, chatSockets, connectTimers, reconnects, lastDelay >>

\* The chat socket with the page lifecycle and the clicks that start and stop a
\* voice session.
NextChat ==
  \/ ChatOpens
  \/ ChatCloses
  \/ ConnectTimer
  \/ PageVisible
  \/ BeforeUnload
  \/ StartVoiceClick(MaxStarts)
  \/ StopVoiceClick
  \/ SocketOpens

SpecChat == Init /\ [][NextChat]_vars

\* The voice session: every task, with few payloads.
Next ==
  \/ StartVoiceClick(MaxStarts)
  \/ StopVoiceClick
  \/ ToggleClick
  \/ CaptureGranted
  \/ CaptureDenied
  \/ CaptureLoaded
  \/ CaptureFrame
  \/ SocketOpens
  \/ SocketCloses
  \/ ElevenLabsMessage(ElevenLabsTypes, MaxSessionPayloads, {WholeFragment})
  \/ OpenAiMessage(OpenAiTypes, MaxSessionPayloads, {WholeFragment})
  \/ BufferEnds
  \/ PlaybackEnded
  \/ TailTimer

Spec == Init /\ [][Next]_vars

\* A voice session of variant v in which capture runs and the socket has opened:
\* the state after startVoice, the capture start (with the AudioWorkletNode or with
\* the ScriptProcessor fallback) and the socket's open event.
EstablishedSession(v, worklet) ==
  LET a == StartVoice(InitialState(v))
      b == IF v = "elevenlabs"
           THEN ElevenLabsCaptureLoaded(ElevenLabsCaptureGranted(a, 1), 1, worklet, FALSE)
           ELSE OpenAiCaptureGranted(a, 1)
  IN UpdateVoiceStatus([ b EXCEPT !.sock[1] = "open" ], "Starting...")

InitPlayback ==
  /\ ChatInit
  /\ OthersIdle
  /\ \E v \in Variants, worklet \in BOOLEAN : StartsAs(EstablishedSession(v, worklet))

\* The playback queues of one established voice session, with more payloads: every
\* message, the audio events and timers of the drain functions, stopVoice and the
\* variant toggle.  No further startVoice runs, so no capture start is pending; left
\* out are the tasks that do not touch the playback state (captured frames) or only
\* end the delivery of messages (the socket closing).
NextPlayback ==
  \/ StopVoiceClick
  \/ ToggleClick
  \/ ElevenLabsMessage(ElevenLabsTypes, MaxPayloads, {WholeFragment})
  \/ OpenAiMessage(OpenAiTypes, MaxPayloads, {WholeFragment})
  \/ BufferEnds
  \/ PlaybackEnded
  \/ TailTimer

SpecPlayback == InitPlayback /\ [][NextPlayback]_vars

\* One established voice session to its end, with few payloads: every task that can
\* run once the session is established.  The audio thread and the timers are fair:
\* a finished buffer reports 'ended', a queued event or timer is delivered, a
\* running capture graph keeps calling its callback.  Messages, the socket closing
\* and clicks may or may not come.
NextEstablished ==
  \/ StopVoiceClick
  \/ ToggleClick
  \/ CaptureFrame
  \/ SocketCloses
  \/ ElevenLabsMessage(ElevenLabsTypes \cup ErrorTypes, MaxSessionPayloads,
                       {WholeFragment})
  \/ OpenAiMessage(OpenAiTypes \cup ErrorTypes, MaxSessionPayloads, {WholeFragment})
  \/ BufferEnds
  \/ PlaybackEnded
  \/ TailTimer

SpecEstablished ==
  /\ InitPlayback
  /\ [][NextEstablished]_vars
  /\ WF_vars(BufferEnds)
  /\ WF_vars(PlaybackEnded)
  /\ WF_vars(TailTimer)
  /\ WF_vars(CaptureFrame)

\* The turns of an established session: texts, audio, barge-in and the controls
\* that end a turn, with the playback events and the stop control.
NextTranscript ==
  \/ StopVoiceClick
  \/ ElevenLabsMessage(ElevenLabsTurnTypes, MaxTurnPayloads, {WholeFragment})
  \/ OpenAiMessage(OpenAiTurnTypes, MaxTurnPayloads, {WholeFragment})
  \/ BufferEnds
  \/ PlaybackEnded
  \/ TailTimer

SpecTranscript == InitPlayback /\ [][NextTranscript]_vars

\* The audio of an established session whose payloads carry any of the fragments:
\* among them strings that do not decode, alone or joined, and message events
\* whose data do not parse.
NextDecode ==
  \/ StopVoiceClick
  \/ ElevenLabsMessage(AudioTypes, MaxDecodePayloads, Fragments)
  \/ OpenAiMessage(AudioTypes, MaxDecodePayloads, Fragments)
  \/ UnparsedMessage
  \/ BufferEnds
  \/ PlaybackEnded
  \/ TailTimer

SpecDecode == InitPlayback /\ [][NextDecode]_vars

\* The start of a voice session from the page load, without messages: the clicks,
\* the steps of the capture start, the captured frames and the socket's open and
\* close events.
NextCapture ==
  \/ StartVoiceClick(MaxStarts)
  \/ StopVoiceClick
  \/ CaptureGranted
  \/ CaptureDenied
  \/ CaptureLoaded
  \/ CaptureFrame
  \/ SocketOpens
  \/ SocketCloses

SpecCapture == Init /\ [][NextCapture]_vars

\* The samples the conversions are applied to: the bounds -1 and 1, samples
\* outside them (-2, -1.5, 1.5, 2), zero, the smallest samples on either side of
\* it, and samples just above 0.5 and just below -0.5.
Samples ==
  { 0 - 2 * SampleUnit, 0 - (SampleUnit + (SampleUnit \div 2)), 0 - SampleUnit,
    0 - ((SampleUnit \div 2) + 1), 0 - 1, 0, 1, (SampleUnit \div 2) + 1, SampleUnit,
    SampleUnit + (SampleUnit \div 2), 2 * SampleUnit }

RECURSIVE SeqsUpTo(_, _)
SeqsUpTo(S, n) ==
  IF n = 0
  THEN { << >> }
  ELSE LET shorter == SeqsUpTo(S, n - 1)
       IN shorter \cup { Append(q, x) : q \in shorter, x \in S }

\* A Float32Array of at most MaxSamples samples is about to be encoded.
InitCodec ==
  /\ ChatInit
  /\ StartsAs(InitialState("openai"))
  /\ notes = NotesIdle
  /\ modeSession = ModeSessionIdle
  /\ feed = FeedIdle
  /\ \E x \in SeqsUpTo(Samples, MaxSamples) :
       codec = [CodecIdle EXCEPT !.pc = "input", !.float32Array = x]

\* encode: float32ToPCM16Base64(float32Array)
Encode ==
  /\ codec.pc = "input"
  /\ codec' = [codec EXCEPT !.pc = "encoded",
                            !.base64 = Float32ToPCM16Base64(codec.float32Array)]
  /\ UNCHANGED << chatVars, notes, modeSession, feed >>
  /\ VoiceVarsBecome(Cur)

\* decode: base64PCM16ToFloat32(base64), which returns or throws.
Decode ==
  /\ codec.pc = "encoded"
  /\ LET r == Base64PCM16ToFloat32(codec.base64)
     IN codec' = [codec EXCEPT !.pc = IF r.ok THEN "decoded" ELSE "thrown",
                               !.float32 = r.float32]
  /\ UNCHANGED << chatVars, notes, modeSession, feed >>
  /\ VoiceVarsBecome(Cur)

NextCodec == Encode \/ Decode

SpecCodec == InitCodec /\ [][NextCodec]_vars

(***************************************************************************)
(* The voice notes.  The handlers are functions of the record `notes`; the   *)
(* global `mode` they also set is the voice interface's.                     *)
(***************************************************************************)

Range(q) == { q[i] : i \in 1 .. Len(q) }

\* mediaRecorder.stop() on a recording recorder: the recorder becomes inactive and
\* queues a dataavailable event with what it gathered, then a stop event.
RecorderStop(n) ==
  [ n EXCEPT !.mediaRecorder = "inactive",
             !.events = @ \o << [type |-> "dataavailable", rec |-> n.recordings],
                                [type |-> "stop", rec |-> n.recordings] >> ]

\* releaseMicrophone(): the tracks are stopped and both globals are set to null.  A
\* recorder that was recording loses its last track, which stops it as stop() does.
ReleaseMicrophone(n) ==
  [ (IF n.mediaRecorder = "recording" THEN RecorderStop(n) ELSE n)
      EXCEPT !.mediaRecorder = "null" ]

\* startRecording(): without a recorder, initRecorder() is called and startRecording
\* runs again when it has succeeded; start() on a recorder that is recording throws
\* InvalidStateError.
StartRecording(n) ==
  CASE n.mediaRecorder = "null" -> [ n EXCEPT !.inits = @ + 1 ]
    [] n.mediaRecorder = "recording" -> [ n EXCEPT !.audioChunks = << >> ]
    [] OTHER -> [ n EXCEPT !.audioChunks = << >>,
                           !.mediaRecorder = "recording",
                           !.recordings = @ + 1 ]

\* initRecorder() after getUserMedia has resolved, and the startRecording() that
\* follows it.
InitRecorderGranted(n) ==
  StartRecording([ n EXCEPT !.inits = @ - 1, !.mediaRecorder = "inactive" ])

\* initRecorder() after getUserMedia has rejected: toast('Mic access denied').
InitRecorderDenied(n) == [ n EXCEPT !.inits = @ - 1, !.toast = "Mic access denied" ]

\* stopRecording()
StopRecording(n) ==
  IF n.mediaRecorder \in {"null", "inactive"} THEN n ELSE RecorderStop(n)

\* deleteRecording()
DeleteRecording(n) ==
  ReleaseMicrophone(
    [ StopRecording(n) EXCEPT
        !.audioChunks = << >>,
        !.toast = "Recording deleted",
        !.deleted = IF n.mediaRecorder = "recording" THEN @ \cup {n.recordings} ELSE @ ])

\* mediaRecorder.ondataavailable
OnDataAvailable(n, rec, size) ==
  IF size > 0 THEN [ n EXCEPT !.audioChunks = Append(@, rec) ] ELSE n

\* The finally block of finishRecording.
FinishRecordingFinally(n, c) ==
  ReleaseMicrophone([ n EXCEPT !.calls = @ \ {c},
                               !.isProcessing = FALSE,
                               !.audioChunks = << >> ])

\* finishRecording after `await send(...)`: toast('Notes transcribed'), then the
\* finally block.
FinishRecordingReports(n, c, sent) ==
  FinishRecordingFinally(
    [ n EXCEPT !.toast = "Notes transcribed",
               !.reports = @ \cup {[blob |-> c.blob, sent |-> sent]},
               !.messaged = IF sent THEN @ \cup Range(c.blob) ELSE @ ], c)

\* finishRecording (the recorder's onstop) up to `await fetch('/api/transcribe')`.
FinishRecording(n) ==
  IF n.audioChunks = << >>
  THEN ReleaseMicrophone(n)
  ELSE [ n EXCEPT !.isProcessing = TRUE,
                  !.uploaded = @ \cup Range(n.audioChunks),
                  !.calls = @ \cup {[pc |-> "transcribing", blob |-> n.audioChunks]} ]

\* finishRecording after the response of /api/transcribe.  With a transcript it
\* calls send(transcript, 'notes', duration), which returns at once when
\* isProcessing, sends on the chat socket when that is OPEN, and otherwise awaits
\* fetch('/api/messages'); no attachment is pending.
Transcribed(n, c, outcome, wsOpen) ==
  CASE outcome # "transcript" ->
         FinishRecordingFinally([n EXCEPT !.toast = "Transcription failed"], c)
    [] n.isProcessing -> FinishRecordingReports(n, c, FALSE)
    [] wsOpen -> FinishRecordingReports(n, c, TRUE)
    [] OTHER -> [ n EXCEPT !.isProcessing = TRUE,
                           !.calls = (@ \ {c}) \cup {[c EXCEPT !.pc = "posting"]} ]

\* send() after the response of /api/messages (a failure is caught inside send:
\* toast('Failed to send message'), setProcessing(false)), and finishRecording
\* after it.
Posted(n, c, ok) == FinishRecordingReports(n, c, ok)

\* The responses of /api/transcribe: a transcript, none, or a failure.
TranscribeOutcomes == {"transcript", "empty", "failed"}

\* A task of the voice notes: the handler's new record, and the global mode.
NotesBecomes(n, m) ==
  /\ notes' = n
  /\ VoiceVarsBecome([Cur EXCEPT !.mode = m])
  /\ UNCHANGED << chatVars, codec, modeSession, feed >>

\* notesBtn click
NotesClick ==
  /\ notes.inits + notes.recordings < MaxRecordings
  /\ NotesBecomes(StartRecording(notes),
                  IF notes.mediaRecorder = "inactive" THEN "notes" ELSE mode)

RecorderGranted ==
  /\ notes.inits > 0
  /\ NotesBecomes(InitRecorderGranted(notes), "notes")

RecorderDenied ==
  /\ notes.inits > 0
  /\ NotesBecomes(InitRecorderDenied(notes), mode)

\* closeNotesBtn click
CloseNotesClick ==
  NotesBecomes(StopRecording(notes),
               IF notes.mediaRecorder = "recording" THEN "chat" ELSE mode)

\* deleteNotesBtn click
DeleteNotesClick ==
  NotesBecomes(DeleteRecording(notes),
               IF notes.mediaRecorder = "recording" THEN "chat" ELSE mode)

\* The next queued event of a recorder is delivered.
RecorderEvent ==
  /\ notes.events # << >>
  /\ LET e == Head(notes.events)
         n == [ notes EXCEPT !.events = Tail(@) ]
     IN IF e.type = "dataavailable"
        THEN \E size \in {0, 1} : NotesBecomes(OnDataAvailable(n, e.rec, size), mode)
        ELSE NotesBecomes(FinishRecording(n), mode)

TranscribeResponds ==
  \E c \in notes.calls, outcome \in TranscribeOutcomes :
    /\ c.pc = "transcribing"
    /\ NotesBecomes(Transcribed(notes, c, outcome, ws # 0 /\ chatSock[ws] = "open"),
                    mode)

PostResponds ==
  \E c \in notes.calls, ok \in BOOLEAN :
    /\ c.pc = "posting"
    /\ NotesBecomes(Posted(notes, c, ok), mode)

\* A chat message arrives on the open chat socket: handleNewMessage ends with
\* setProcessing(false).
ChatMessage ==
  \E timestamp \in 0 .. MaxTimestamp :
    /\ ws # 0 /\ chatSock[ws] = "open"
    /\ feed.received < MaxReceived
    /\ notes' = [notes EXCEPT !.isProcessing = FALSE]
    /\ feed' = HandleNewMessage(feed, timestamp)
    /\ VoiceVarsBecome(Cur)
    /\ UNCHANGED << chatVars, codec, modeSession >>

\* The voice notes with the chat socket: the three buttons, the recorder's events,
\* the responses of the two endpoints, and the chat socket opening, closing and
\* delivering a message.
NextNotes ==
  \/ NotesClick
  \/ RecorderGranted
  \/ RecorderDenied
  \/ CloseNotesClick
  \/ DeleteNotesClick
  \/ RecorderEvent
  \/ TranscribeResponds
  \/ PostResponds
  \/ ChatMessage
  \/ ChatOpens
  \/ ChatCloses

SpecNotes == Init /\ [][NextNotes]_vars

\* The text input receives the focus.
TextFocus ==
  Becomes(Did(TextInputFocus(RecordFlush(Cur, voiceMode)), "focus"))

\* The three modes: the voice button with the capture start and the voice socket,
\* the notes buttons with the recorder, and the text input.
NextModes ==
  \/ StartVoiceClick(MaxStarts)
  \/ StopVoiceClick
  \/ CaptureGranted
  \/ CaptureDenied
  \/ CaptureLoaded
  \/ SocketOpens
  \/ NotesClick
  \/ RecorderGranted
  \/ RecorderDenied
  \/ CloseNotesClick
  \/ TextFocus

SpecModes == Init /\ [][NextModes]_vars

(***************************************************************************)
(* The chat feed: the mode buttons, the exit button, the replies with a    *)
(* mode's history, the main history preloaded in the background.           *)
(***************************************************************************)

FeedBecomes(f) ==
  /\ feed' = f
  /\ VoiceVarsBecome(Cur)
  /\ UNCHANGED << chatVars, codec, notes, modeSession >>

\* The messages of a mode's history in a reply.
ModeHistories == SeqsUpTo({"message"}, MaxHistory)

\* The timestamps of the messages of /api/messages/all, oldest first.
Histories ==
  { h \in SeqsUpTo(1 .. MaxTimestamp, MaxHistory) :
      \A i \in 1 .. Len(h) - 1 : h[i] <= h[i + 1] }

\* The animation frame of showIntroPage() at page load.
FeedIntroFrame ==
  /\ feed.introFrames > 0
  /\ FeedBecomes(IntroFrame(feed))

\* A click on a mode button.
ModeClick ==
  \E modeName \in Modes :
    /\ feed.enters < MaxEnters
    /\ FeedBecomes(EnterMode(feed, modeName, ws # 0 /\ chatSock[ws] = "open"))

\* A click on the exit button of the mode indicator.
ExitClick ==
  /\ feed.currentSparkMode # "null"
  /\ FeedBecomes(ExitMode(feed))

\* /api/modes/<mode>/history replies, or fails.
ModeHistoryReplies ==
  \E modeName \in feed.enterCalls, messages \in ModeHistories :
    FeedBecomes(EnterModeResumes(feed, modeName, messages))

\* A mode_history message arrives on the open chat socket.
ModeHistoryArrives ==
  \E sparkMode \in feed.requests, messages \in ModeHistories :
    /\ ws # 0 /\ chatSock[ws] = "open"
    /\ FeedBecomes(HandleModeHistory(feed, sparkMode, messages))

\* /api/messages/all replies, or fails.
HistoryReplies ==
  \E messages \in Histories :
    /\ feed.historyLoads > 0
    /\ FeedBecomes(HistoryLoaded(feed, messages))

NextFeed ==
  \/ FeedIntroFrame
  \/ ModeClick
  \/ ExitClick
  \/ ModeHistoryReplies
  \/ ModeHistoryArrives
  \/ HistoryReplies
  \/ ChatMessage
  \/ ChatOpens
  \/ ChatCloses

SpecFeed == Init /\ [][NextFeed]_vars

\* The values the user leaves in the text input.
InputValues == {" ", "text"}

\* The feed and the processing flag become those of r.
SentBecomes(r) ==
  /\ feed' = r.feed
  /\ notes' = [notes EXCEPT !.isProcessing = r.isProcessing]
  /\ VoiceVarsBecome(Cur)
  /\ UNCHANGED << chatVars, codec, modeSession >>

ChatOpen == ws # 0 /\ chatSock[ws] = "open"

\* The user types into the text input.
TypeText ==
  \E value \in InputValues :
    /\ feed.textInput # value
    /\ FeedBecomes([feed EXCEPT !.textInput = value])

\* The user attaches a file.
AttachFile ==
  /\ ~feed.pendingAttachment
  /\ FeedBecomes([feed EXCEPT !.pendingAttachment = TRUE])

\* Enter in the text input, or a click on the send button.
SubmitClick ==
  /\ feed.transmitted < MaxSubmits
  /\ SentBecomes(SubmitText(feed, notes.isProcessing, ChatOpen))

\* A fetch of send() replies, or fails.
SendResponds ==
  \E ok \in BOOLEAN :
    /\ feed.posts > 0
    /\ SentBecomes(SendResumes(feed, notes.isProcessing, ok))

\* The text input, the attachment and the send button, with the chat socket.
NextSend ==
  \/ FeedIntroFrame
  \/ TypeText
  \/ AttachFile
  \/ SubmitClick
  \/ SendResponds
  \/ ChatMessage
  \/ ChatOpens
  \/ ChatCloses

SpecSend == Init /\ [][NextSend]_vars

\* The timestamps: the chat socket with its reconnect timer, the messages it
\* delivers and the preloads of the main history.
NextCatchUp ==
  \/ ChatOpens
  \/ ChatCloses
  \/ ConnectTimer
  \/ ChatMessage
  \/ HistoryReplies

SpecCatchUp == Init /\ [][NextCatchUp]_vars

(***************************************************************************)
(* sendToModeSession.  A top-level call and the calls it makes of itself    *)
(* on the create-session-and-retry path form a chain: invocation d + 1 is   *)
(* the one invocation d made.  The callbacks return normally.               *)
(***************************************************************************)

\* resolve(...) of invocation d.  The first call settles the promise; invocation
\* d - 1, which passed its own resolve to .then(), is resolved by it.
RECURSIVE Resolve(_, _)
Resolve(m, d) ==
  LET r == [ m EXCEPT !.calls[d].resolves = @ + 1 ]
  IN IF d > 1 /\ m.calls[d].resolves = 0 THEN Resolve(r, d - 1) ELSE r

\* The end of a failing handler: onError(...), onDone(), resolve({success: false}).
Fails(m, d, handler) ==
  Resolve([ m EXCEPT !.onError = @ + 1, !.onDone = @ + 1,
                     !.calls[d].by = @ \cup {handler} ], d)

\* sendToModeSession(mode, message, callbacks) up to its return: onThinking(), the
\* process is spawned and the 10 minute timer is set.
SendToModeSession(m) ==
  [ m EXCEPT !.onThinking = @ + 1,
             !.calls = Append(@, [ proc |-> "running", timer |-> "set",
                                   stdout |-> << >>, stderr |-> << >>,
                                   completed |-> FALSE, create |-> "none",
                                   created |-> "none", resolves |-> 0, by |-> {} ]) ]

\* proc.stdout.on('data') and proc.stderr.on('data'): the output is the sequence
\* of the chunks received.
SendOnStdout(m, d, data) == [ m EXCEPT !.calls[d].stdout = Append(@, data) ]

SendOnStderr(m, d, data) == [ m EXCEPT !.calls[d].stderr = Append(@, data) ]

\* The chunks a process writes: a JSON document or other text on stdout, a message
\* with or without 'not found' on stderr.
StdoutChunks == {"{}", "text"}

StderrChunks == {"not found", "other"}

\* JSON.parse(stdout) returns: the output is one JSON document.
JsonParses(stdout) == stdout = << "{}" >>

\* stderr.includes('not found') || stderr.includes('no session')
SessionNotFound(stderr) == \E i \in 1 .. Len(stderr) : stderr[i] = "not found"

\* The callback of setTimeout.
SendOnTimeout(m, d) ==
  LET a == [ m EXCEPT !.calls[d].timer = "fired" ]
  IN IF m.calls[d].completed
     THEN a
     ELSE Fails([ a EXCEPT !.calls[d].completed = TRUE ], d, "timeout")

SendOnErrorUnguarded(m, d) ==
  Fails([ m EXCEPT !.calls[d].proc = "errored",
                   !.calls[d].timer = IF @ = "set" THEN "cleared" ELSE @,
                   !.calls[d].completed = TRUE ], d, "error")

\* proc.on('error')
SendOnError(m, d) ==
  LET a == [ m EXCEPT !.calls[d].proc = "errored",
                      !.calls[d].timer = IF @ = "set" THEN "cleared" ELSE @ ]
  IN IF m.calls[d].completed
     THEN a
     ELSE Fails([ a EXCEPT !.calls[d].completed = TRUE ], d, "error")

\* The exit codes a close event carries.
ExitCodes == {0, 1}

\* proc.on('close')
SendOnClose(m, d, code) ==
  LET a == [ m EXCEPT !.calls[d].proc = "closed",
                      !.calls[d].timer = IF @ = "set" THEN "cleared" ELSE @ ]
      b == [ a EXCEPT !.calls[d].completed = TRUE ]
  IN CASE m.calls[d].completed -> a
       [] code # 0 /\ SessionNotFound(m.calls[d].stderr) ->
            [ b EXCEPT !.calls[d].create = "running", !.calls[d].created = "pending" ]
       [] code = 0 /\ JsonParses(m.calls[d].stdout) ->
            Resolve([ b EXCEPT !.onText = @ + 1, !.onDone = @ + 1,
                               !.calls[d].by = @ \cup {"close"} ], d)
       [] OTHER -> Fails(b, d, "close")

\* createModeSession's proc.on('close'): the promise is resolved (code 0) or
\* rejected, which has an effect when it is still pending: then the retry runs, or
\* the catch callback.
CreateOnClose(m, d, ok) ==
  LET a == [ m EXCEPT !.calls[d].create = "closed" ]
      b == [ a EXCEPT !.calls[d].created = "settled" ]
  IN CASE m.calls[d].created # "pending" -> a
       [] ok -> SendToModeSession(b)
       [] OTHER -> Fails(b, d, "create")

\* createModeSession's proc.on('error', reject)
CreateOnError(m, d) ==
  LET a == [ m EXCEPT !.calls[d].create = "errored" ]
  IN IF m.calls[d].created # "pending"
     THEN a
     ELSE Fails([ a EXCEPT !.calls[d].created = "settled" ], d, "create")

ModeSessionBecomes(m) ==
  /\ modeSession' = m
  /\ VoiceVarsBecome(Cur)
  /\ UNCHANGED << chatVars, codec, notes, feed >>

\* The top-level call.
ModeSessionCall ==
  /\ modeSession.calls = << >>
  /\ ModeSessionBecomes(SendToModeSession(modeSession))

Invocations == 1 .. Len(modeSession.calls)

\* The 10 minute timer of an invocation fires.
ModeSessionTimeout ==
  \E d \in Invocations :
    /\ modeSession.calls[d].timer = "set"
    /\ ModeSessionBecomes(SendOnTimeout(modeSession, d))

\* The process emits 'error' (it could not be spawned or killed), before 'close'.
ModeSessionError ==
  \E d \in Invocations :
    /\ modeSession.calls[d].proc = "running"
    /\ ModeSessionBecomes(SendOnError(modeSession, d))

\* The process emits 'close', after it has ended, was killed or could not be spawned.
ModeSessionClose ==
  \E d \in Invocations, code \in ExitCodes :
    /\ modeSession.calls[d].proc \in {"running", "errored"}
    /\ ModeSessionBecomes(SendOnClose(modeSession, d, code))

\* The process writes on stdout or on stderr.
ModeSessionStdout ==
  \E d \in Invocations, data \in StdoutChunks :
    /\ modeSession.calls[d].proc = "running"
    /\ Len(modeSession.calls[d].stdout) < MaxChunks
    /\ ModeSessionBecomes(SendOnStdout(modeSession, d, data))

ModeSessionStderr ==
  \E d \in Invocations, data \in StderrChunks :
    /\ modeSession.calls[d].proc = "running"
    /\ Len(modeSession.calls[d].stderr) < MaxChunks
    /\ ModeSessionBecomes(SendOnStderr(modeSession, d, data))

ModeSessionCreateClose ==
  \E d \in Invocations, ok \in BOOLEAN :
    /\ modeSession.calls[d].create \in {"running", "errored"}
    /\ (ok /\ modeSession.calls[d].created = "pending") => d < MaxSends
    /\ ModeSessionBecomes(CreateOnClose(modeSession, d, ok))

ModeSessionCreateError ==
  \E d \in Invocations :
    /\ modeSession.calls[d].create = "running"
    /\ ModeSessionBecomes(CreateOnError(modeSession, d))

\* One top-level call of sendToModeSession and every event of its processes and
\* timers.
NextModeSession ==
  \/ ModeSessionCall
  \/ ModeSessionTimeout
  \/ ModeSessionError
  \/ ModeSessionClose
  \/ ModeSessionStdout
  \/ ModeSessionStderr
  \/ ModeSessionCreateClose
  \/ ModeSessionCreateError

SpecModeSession == Init /\ [][NextModeSession]_vars

(***************************************************************************)
(* Properties of the playback queues (SpecPlayback).                        *)
(***************************************************************************)

\* The drain loops of a variant that are suspended on a playing buffer.
PlayingLoops(variant) ==
  { l \in loops : l.pc = "playing" /\ l.kind \in KindsOf(variant) }

FlushMark(variant) == IF variant = "elevenlabs" THEN flushMarkEl ELSE flushMarkOa

Increasing(q) == \A i \in 1 .. Len(q) - 1 : q[i] < q[i + 1]

\* C1: at any moment at most one drain loop of a variant is suspended on a playing
\* buffer, so at most one audio payload of the variant is playing.
C1_AtMostOnePlaying ==
  \A variant \in Variants : Cardinality(PlayingLoops(variant)) <= 1

\* C2: after a flush of a variant's queue no payload that had arrived before the
\* flush is pending or playing: the pending ones were discarded and the playing one
\* was stopped, also on the chunked TTS path.
C2_FlushedNeverPlays ==
  \A variant \in Variants :
    /\ \A id \in PlayingIds(Cur, variant) : id >= FlushMark(variant)
    /\ \A id \in SeqToSet(QueueOf(Cur, variant)) : id >= FlushMark(variant)

\* C3: payloads are started on the speaker in the order they arrived: a step that
\* starts a buffer starts payloads that arrived after every payload started before,
\* and a buffer that combines several payloads holds them in arrival order.
StartsInOrder ==
  /\ lastStartedEl' >= lastStartedEl
  /\ lastStartedOa' >= lastStartedOa
  /\ \A l \in loops' \ loops :
       l.pc = "playing" =>
         /\ Increasing(l.unit)
         /\ l.unit[1] > (IF l.kind = "el" THEN lastStartedEl ELSE lastStartedOa)

C3_PlayedInArrivalOrder == [][StartsInOrder]_vars

\* C3's case: a payload that was started after an earlier one is on the speaker
\* while a payload that arrived after it is pending.
C3_LaterPayloadWaits ==
  \E variant \in Variants :
    /\ QueueOf(Cur, variant) # << >>
    /\ \E l \in PlayingLoops(variant) : l.kind \in {"el", "pcm"} /\ l.unit[1] >= 2

\* C4: with no flush and no stop, a payload left in the queue has a drain loop that
\* will take it: a loop of its variant is suspended on a buffer or about to continue
\* after one.  (A pending payload with no such loop is played only when a later
\* enqueue calls the drain function again.)
C4_PendingHasDrainLoop ==
  (flushMarkEl = 0 /\ flushMarkOa = 0 /\ ~afterStop) =>
    \A variant \in Variants :
      QueueOf(Cur, variant) # << >> =>
        \E l \in loops :
          /\ l.kind \in KindsOf(variant) \ {"tts"}
          /\ l.pc \in {"playing", "ended"}

SecondDeliveryIsNoOp ==
  /\ flushRun' >= 1 =>
       /\ openAiAudioQueue' = << >>
       /\ ~isPlayingOpenAi'
       /\ realtimePlaybackContext' = "null"
  /\ (flushRun >= 1 /\ flushRun' >= 1) => UNCHANGED progVars

LiveSockets == { k \in Starts : sock[k] \in {"connecting", "open"} }

LiveStreams == { k \in Starts : stream[k] = "live" }

\* C6: while a session is listening, the selected variant is the one startVoice
\* started, so stopVoice tears down that variant.
C6_VariantFixedInSession ==
  isListening => voiceMode = variantOf[starts]

\* C7: a capture start that fails (getUserMedia rejects) leaves the session idle:
\* not listening, mode not 'voice', no voice socket connecting or open.
C7_CaptureFailureLeavesIdle ==
  [][CaptureDenied => (~isListening' /\ mode' # "voice" /\ LiveSockets' = {})]_vars

\* C8: at most one voice socket and at most one capture stream exist at any time,
\* and each is held by the global stopVoice releases it through.
C8_OneSocketOneStream ==
  /\ Cardinality(LiveSockets) <= 1
  /\ Cardinality(LiveStreams) <= 1
  /\ \A k \in LiveSockets : k \in {elevenLabsWs, realtimeWs}
  /\ \A k \in LiveStreams : k \in {voiceMediaStream, realtimeMediaStream}

\* C9: from every state stopVoice leaves the session idle: not listening, mode
\* 'chat', the stream and the socket of the running session released and their
\* globals null, the queue of its variant empty.
IdleAfterStop(k) ==
  /\ ~isListening
  /\ mode = "chat"
  /\ k # 0 =>
       /\ stream[k] # "live"
       /\ sock[k] \notin {"connecting", "open"}
       /\ IF variantOf[k] = "elevenlabs"
          THEN voiceMediaStream = 0 /\ elevenLabsWs = 0 /\ elevenLabsAudioQueue = << >>
          ELSE realtimeMediaStream = 0 /\ realtimeWs = 0 /\ openAiAudioQueue = << >>

C9_StopLeavesIdle == [][StopVoiceClick => IdleAfterStop(starts)']_vars

\* C10: once stopVoice has returned for the variant the session was started with,
\* and until the next startVoice, no captured frame is sent, no audio payload is
\* enqueued and none is started on the speaker.
QuietAfterStop ==
  (afterStop /\ afterStop' /\ starts # 0 /\ voiceMode = variantOf[starts]) =>
    /\ nextId' = nextId
    /\ lastStartedEl' = lastStartedEl
    /\ lastStartedOa' = lastStartedOa
    /\ ~sentAfterStop'

C10_NothingAfterStop == [][QuietAfterStop]_vars

(***************************************************************************)
(* Properties of the sockets.                                               *)
(***************************************************************************)

\* The socket stopVoice sends its end/stop control on: the global of the selected
\* variant (0 when the global is null and nothing is sent).
StopSocket == IF voiceMode = "elevenlabs" THEN elevenLabsWs ELSE realtimeWs

\* C11: no send on a voice socket throws: the end/stop control of stopVoice is a
\* no-op when the socket is connecting or closed.
C11_StopSendNeverThrows == [][StopVoiceClick => ~SendThrows(Cur, StopSocket)]_vars

\* C12: while the socket of its variant is open, every frame a running capture graph
\* hands to its callback is sent, whatever the frame holds.
C12_EveryFrameSentWhileOpen ==
  \A k \in Starts, loud \in BOOLEAN :
    (graph[k] \in {"cur", "leaked"} /\ stream[k] = "live" /\ CanSend(Cur, variantOf[k]))
      => CaptureCallbackSends(Cur, k, loud)

(***************************************************************************)
(* Properties of the chat socket (SpecChat).                                *)
(***************************************************************************)

\* C13: the k-th consecutive reconnect attempt after an unintentional close is
\* scheduled after baseDelay * k (baseDelay 2000 ms), and no attempt is scheduled
\* after maxAttempts (5) consecutive failures.
LinearBackoffStep ==
  reconnects' = reconnects + 1 =>
    /\ lastDelay' = ReconnectDelay * reconnects'
    /\ reconnects' <= MAX_RECONNECT_ATTEMPTS

C13_LinearBackoffBounded == [][LinearBackoffStep]_vars

\* C14: the close event of a socket the client closed itself (close() in the
\* beforeunload handler) sets no reconnect timer.
NoReconnectAfterClientClose ==
  \A k \in ChatSockets :
    (clientClosed[k] /\ chatSock[k] = "closing" /\ chatSock'[k] = "closed")
      => connectTimers' = connectTimers

C14_IntentionalCloseNoReconnect == [][NoReconnectAfterClientClose]_vars

(***************************************************************************)
(* Properties of an established session (SpecEstablished).                  *)
(***************************************************************************)

\* The socket of the running session has closed and stopVoice has not been called.
SessionSocketLost == isListening /\ sock[starts] = "closed"

\* C15: when the voice socket closes without stopVoice having been called, the
\* session gets an open socket again on which captured frames are sent (unless the
\* user stops it first).
C15_ReconnectsAfterLoss ==
  [](SessionSocketLost => <>(~isListening \/ CanSend(Cur, variantOf[starts])))

(***************************************************************************)
(* Properties of the turns of a session (SpecTranscript).                   *)
(***************************************************************************)

\* The control by which the backend of a variant ends the assistant's turn.
TurnComplete(variant) == IF variant = "elevenlabs" THEN "conversation_ended" ELSE "done"

\* The handler of a variant's socket applied to a message of the given type.
Handled(s, variant, type) ==
  IF variant = "elevenlabs"
  THEN HandleElevenLabsMessage(s, type, s.nextId)
  ELSE HandleOpenAiRealtimeMessage(s, type, s.nextId)

\* The session of the last start is open and the assistant is speaking.
Speaking(variant) ==
  /\ starts # 0
  /\ variantOf[starts] = variant
  /\ sock[starts] = "open"
  /\ isListening
  /\ voiceStatus = "Speaking..."

\* C16: in each variant, once the assistant is speaking, the turn-complete control
\* sets the status to 'Listening' and resets both transcript holders, so the next
\* turn's transcripts go to new message elements.
C16_TurnCompleteReturnsToListening ==
  \A variant \in Variants :
    Speaking(variant) =>
      LET s == Handled(Cur, variant, TurnComplete(variant))
      IN /\ s.voiceStatus = "Listening"
         /\ s.currentUserMsg = 0
         /\ s.currentAssistantMsg = 0

\* The signal by which the backend of a variant reports that the user speaks over
\* the assistant.
BargeIn(variant) == IF variant = "elevenlabs" THEN "interruption" ELSE "user_speaking"

TurnTypes(variant) ==
  IF variant = "elevenlabs" THEN ElevenLabsTurnTypes ELSE OpenAiTurnTypes

\* The socket of the last start is open and belongs to the variant.
SessionOpen(variant) ==
  /\ starts # 0
  /\ variantOf[starts] = variant
  /\ sock[starts] = "open"

\* C17: whenever a barge-in signal can be delivered, its handler leaves the
\* variant's playback queue empty and both transcript holders null, and a text
\* message handled after it adds one message element and leaves every element that
\* existed before as it was.
C17_BargeInClearsQueueAndHolders ==
  \A variant \in Variants :
    SessionOpen(variant) =>
      LET s == Handled(Cur, variant, BargeIn(variant))
      IN /\ QueueOf(s, variant) = << >>
         /\ s.currentUserMsg = 0
         /\ s.currentAssistantMsg = 0
         /\ \A type \in TextTypes \cap TurnTypes(variant) :
              LET t == Handled(s, variant, type)
              IN /\ Len(t.voiceContent) = Len(voiceContent) + 1
                 /\ SeqToSet(voiceContent) \subseteq SeqToSet(t.voiceContent)

\* C17's case: texts of a turn are on the page, a payload that arrived was never
\* started, and user_speaking has just been handled: the queue is empty and the
\* holders are null.
C17_BargedInWhilePending ==
  /\ SessionOpen("openai")
  /\ flushRun >= 1
  /\ lastStartedOa < nextId - 1
  /\ openAiAudioQueue = << >>
  /\ Len(voiceContent) >= 2
  /\ currentUserMsg = 0
  /\ currentAssistantMsg = 0

(***************************************************************************)
(* Properties of the decode of the payloads (SpecDecode).                   *)
(***************************************************************************)

\* The bytes of the strings, each decoded by itself, one after the other.
RECURSIVE ConcatBytes(_)
ConcatBytes(strs) ==
  IF strs = << >> THEN << >> ELSE Atob(Head(strs)).bytes \o ConcatBytes(Tail(strs))

\* C18: when an audio_chunk starts playback on the chunked TTS path, the fragments
\* pending at that moment and the one that arrived, if each of them decodes and
\* they hold whole 16-bit samples together, are decoded as one unit to the
\* concatenation of their bytes, and that one unit is played.
C18_FragmentsPlayedAsOneUnit ==
  \A data \in Fragments :
    (SessionOpen("openai") /\ ~isPlayingOpenAi) =>
      LET c == Carrying(Cur, data)
          unit == openAiAudioQueue \o << nextId >>
          strs == DataOf(c, unit)
          s == HandleOpenAiRealtimeMessage(c, "audio_chunk", nextId)
      IN ( /\ \A i \in 1 .. Len(strs) : Atob(strs[i]).ok
           /\ Len(ConcatBytes(strs)) % 2 = 0 ) =>
           /\ Atob(Join(strs)) = [ok |-> TRUE, bytes |-> ConcatBytes(strs)]
           /\ \E l \in s.loops : l.kind = "tts" /\ l.pc = "playing" /\ l.unit = unit

\* The invocations of playOpenAiAudioQueueTTS at the given position.
TtsLoops(pc) == { l \in loops : l.kind = "tts" /\ l.pc = pc }

\* A step in which a unit of the chunked TTS path leaves playback, at the end of its
\* buffer or because its decode failed, sends one audio_playback_ended if the
\* socket is open and none otherwise; no other invocation ever sends one.  No step
\* drops a unit that is in playback: it stays there or leaves by such a step.
NotifiesOncePerUnit ==
  /\ \A l \in loops' :
       l.acks = IF /\ l.kind = "tts"
                   /\ l.pc = "tail"
                   /\ CanSend(Cur, "openai")
                   /\ l \notin loops
                THEN 1
                ELSE IF l \in loops THEN l.acks ELSE 0
  /\ \A l \in TtsLoops("playing") \cup TtsLoops("ended") :
       \E m \in loops' : m.kind = "tts" /\ m.unit = l.unit

\* C19: a unit started on the chunked TTS path leaves playback only by the step
\* that ends it, and that step sends exactly one audio_playback_ended message when
\* the socket is open, whether the buffer ended or the decode failed; the PCM-delta
\* and the ElevenLabs drains never send it.
C19_OneNotificationPerUnit == [][NotifiesOncePerUnit]_vars

\* C19's case: the buffer of a unit has ended with the socket open and the
\* invocation has sent its message.
C19_NotifiedAfterPlayback ==
  \E l \in TtsLoops("tail") :
    /\ l.acks = 1
    /\ DecodeUnit(DataOf(Cur, l.unit)).ok
    /\ CanSend(Cur, "openai")

\* The payload carries a string that the drain functions decode.
Decodes(id) == DecodePCM16(payloadData[id]).ok

\* The positions of the pending payloads that decode.
DecodingIn(q) == { i \in 1 .. Len(q) : Decodes(q[i]) }

\* What a drain makes of the queue q: it starts the first pending payload that
\* decodes and leaves those behind it pending; the payloads before it are gone.
StartsFirstDecoding(q, rest, started, playing, kind) ==
  LET i == CHOOSE j \in DecodingIn(q) : \A k \in DecodingIn(q) : j <= k
  IN /\ rest = SubSeq(q, i + 1, Len(q))
     /\ started = q[i]
     /\ \E l \in playing : l.kind = kind /\ l.pc = "playing" /\ l.unit = << q[i] >>

\* C20: whenever the loop of playElevenLabsAudioQueue or playOpenAiAudioQueue
\* evaluates its condition, the payloads that do not decode are skipped and the
\* first one that decodes is started, the payloads behind it staying pending in
\* their order; when none decodes the queue ends empty and the function goes on to
\* clear its flag.  The ElevenLabs queue is never left with its flag set and no
\* invocation in flight, nor with a payload pending and the flag clear.
C20_BadPayloadSkipped ==
  /\ LET s == ElevenLabsDrain(Cur)
     IN IF DecodingIn(elevenLabsAudioQueue) = {}
        THEN /\ s.elevenLabsAudioQueue = << >>
             /\ ~s.isPlayingElevenLabs
             /\ s.loops = loops
        ELSE StartsFirstDecoding(elevenLabsAudioQueue, s.elevenLabsAudioQueue,
                                 s.lastStartedEl, s.loops \ loops, "el")
  /\ \A last \in {<< >>} \cup { l.unit : l \in loops } :
       LET s == OpenAiDrain(Cur, last)
       IN IF DecodingIn(openAiAudioQueue) = {}
          THEN /\ s.openAiAudioQueue = << >>
               /\ s.loops = loops \cup {Loop("pcm", "tail", last, "none")}
          ELSE StartsFirstDecoding(openAiAudioQueue, s.openAiAudioQueue,
                                   s.lastStartedOa, s.loops \ loops, "pcm")
  /\ isPlayingElevenLabs => \E l \in loops : l.kind = "el"
  /\ elevenLabsAudioQueue # << >> => isPlayingElevenLabs

\* C20's case: the first payload was played, the second does not decode, and the
\* third, which arrived behind it, is on the speaker.
C20_PlayedBehindBadPayload ==
  /\ nextId > 3
  /\ Decodes(1)
  /\ ~Decodes(2)
  /\ \E l \in loops : l.kind \in {"el", "pcm"} /\ l.pc = "playing" /\ l.unit = << 3 >>
  /\ 1 \notin PlayingIds(Cur, "elevenlabs") \cup PlayingIds(Cur, "openai")

(***************************************************************************)
(* Properties of the message events (SpecDecode).                           *)
(***************************************************************************)

\* The onmessage function of a variant's socket.
OnMessage(s, variant, wire) ==
  IF variant = "elevenlabs" THEN ElevenLabsOnMessage(s, wire) ELSE OpenAiOnMessage(s, wire)

\* The types a message of the variant can have here.
WireTypes(variant) ==
  IF variant = "elevenlabs"
  THEN ElevenLabsTypes \cup ElevenLabsTurnTypes \cup ErrorTypes
  ELSE OpenAiTypes \cup OpenAiTurnTypes \cup ErrorTypes

\* The state s with the observation variables of the state r.
Observed(s, r) ==
  [ s EXCEPT !.droppedAt = r.droppedAt, !.flushRun = r.flushRun,
             !.turnText = r.turnText,
             !.flushMarkEl = r.flushMarkEl, !.flushMarkOa = r.flushMarkOa ]

\* C21: whenever a message event can be delivered to a voice socket, data that do
\* not parse (or parse to no object) leave the whole state of the program as it
\* is, the socket open included, and data that parse to an object have the effect
\* of the socket's message handler on the parsed message; after the first kind a
\* message is still handled as it would have been without it.
C21_UnparsedDroppedParsedHandled ==
  \A k \in Starts :
    sock[k] = "open" =>
      \A json \in WireKinds, type \in WireTypes(variantOf[k]) :
      \A data \in IF type \in AudioTypes THEN Fragments ELSE {WholeFragment} :
        LET s == OnMessage(Cur, variantOf[k], Wire(json, type, data))
            h == Handled(IF type \in AudioTypes THEN Carrying(Cur, data) ELSE Cur,
                         variantOf[k], type)
        IN IF json = "object"
           THEN s = h
           ELSE /\ Observed(s, Cur) = Cur
                /\ s.sock[k] = "open"
                /\ Observed(OnMessage(s, variantOf[k], Wire("object", type, data)), h) = h

\* C21's case: a wire payload was dropped, and an audio message that arrived after
\* it was handled: its payload is on the speaker.
C21_HandledAfterDrop ==
  /\ droppedAt >= 1
  /\ \E l \in loops : l.pc = "playing" /\ l.unit[Len(l.unit)] >= droppedAt

(***************************************************************************)
(* Properties of the error control (SpecEstablished).                       *)
(***************************************************************************)

\* C22: a session whose status shows the backend's error does not keep that status
\* for ever: it leaves it (for 'Listening') or the user stops the session, also
\* when no further control of the backend arrives.
C22_ErrorFallsBackToListening ==
  []((voiceStatus = "Error" /\ isListening) => <>(voiceStatus # "Error" \/ ~isListening))

(***************************************************************************)
(* Properties of the assistant's text (SpecTranscript).                     *)
(***************************************************************************)

\* C23: while a turn's assistant element is held, the backend has sent text for the
\* turn and the element is not a 'thinking' placeholder, the element shows the last
\* full text followed by the deltas received after it, and nothing else.
C23_ShowsFullTextThenDeltas ==
  (currentAssistantMsg # 0 /\ turnText # << >>) =>
    LET e == Element(Cur, currentAssistantMsg)
    IN ~e.thinking => e.text = turnText

(***************************************************************************)
(* Properties of the capture start (Spec).                                  *)
(***************************************************************************)

\* C24: a capture start that has failed holds no microphone stream: the stream it
\* acquired, if any, is stopped and none of the globals holds it, and it has left no
\* capture graph behind.
C24_FailedCaptureHoldsNothing ==
  \A k \in Starts :
    capPc[k] = "failed" =>
      /\ stream[k] # "live"
      /\ k \notin {voiceMediaStream, realtimeMediaStream}
      /\ graph[k] = "none"

(***************************************************************************)
(* Properties of the captured frames (SpecCapture).                         *)
(***************************************************************************)

\* The socket the capture callback of a variant tests and sends on: the global of
\* the variant (0 when it is null).
CaptureSocket(variant) == IF variant = "elevenlabs" THEN elevenLabsWs ELSE realtimeWs

\* C25: a frame a capture callback receives is sent only if the voice socket of its
\* variant exists and is open; when it is not, the callback leaves the whole state
\* as it is: the frame is kept nowhere, so nothing captured before the socket opened
\* is sent after it.
C25_FramesSentOnlyWhileOpen ==
  \A k \in Starts, loud \in BOOLEAN :
    graph[k] \in {"cur", "leaked"} =>
      LET socket == CaptureSocket(variantOf[k])
          open == socket # 0 /\ sock[socket] = "open"
      IN /\ CaptureCallbackSends(Cur, k, loud) => open
         /\ ~open => CaptureCallback(Cur, k, loud) = Cur

\* C25's case: the socket has opened behind a capture graph that was already
\* running while it was connecting, and the graph still runs.
C25_OpenedBehindRunningCapture ==
  \E k \in Starts :
    /\ graph[k] \in {"cur", "leaked"}
    /\ stream[k] = "live"
    /\ CaptureSocket(variantOf[k]) = k
    /\ sock[k] = "open"

(***************************************************************************)
(* Properties of the PCM16 conversions (SpecCodec).                         *)
(***************************************************************************)

\* The bound of [-1,1] nearest to a sample outside it, and the sample itself inside.
Nearest(n) ==
  IF n > SampleUnit THEN SampleUnit ELSE IF n < 0 - SampleUnit THEN 0 - SampleUnit ELSE n

\* The 16-bit values a base64 string holds.
ValuesOf(base64) == BytesInt16(Atob(base64).bytes)

\* C26: the encoding of a Float32Array is the encoding of its samples moved to the
\* nearest bound of [-1,1]: a sample of 1 or more encodes to 32767 (1 * 0x7FFF), a
\* sample of -1 or less to -32768 (-1 * 0x8000), and the 16-bit value of no sample
\* has the other sign than the sample.
C26_EncodeClampsToNearestBound ==
  codec.pc # "input" =>
    LET x == codec.float32Array
        v == ValuesOf(codec.base64)
    IN /\ codec.base64 = Float32ToPCM16Base64([i \in 1 .. Len(x) |-> Nearest(x[i])])
       /\ Len(v) = Len(x)
       /\ \A i \in 1 .. Len(x) :
            /\ x[i] >= SampleUnit => v[i] = 32767
            /\ x[i] <= 0 - SampleUnit => v[i] = 0 - 32768
            /\ x[i] >= 0 => v[i] >= 0
            /\ x[i] <= 0 => v[i] <= 0

\* C26's case: a Float32Array with a sample above 1 and a sample below -1 has been
\* encoded.
C26_EncodedOutsideRange ==
  /\ codec.pc = "encoded"
  /\ \E i, j \in 1 .. Len(codec.float32Array) :
       codec.float32Array[i] > SampleUnit /\ codec.float32Array[j] < 0 - SampleUnit

Abs(n) == IF n < 0 THEN 0 - n ELSE n

C28_TranscriptSentBeforeReport == \A r \in notes.reports : r.sent

\* C29: no recording discarded with deleteRecording has been uploaded for
\* transcription or sent as a message.
C29_DeletedNeverUploadedNorSent ==
  notes.deleted \cap (notes.uploaded \cup notes.messaged) = {}

(***************************************************************************)
(* Properties of sendToModeSession (SpecModeSession).                       *)
(***************************************************************************)

\* The chain has ended: its last invocation has completed without starting or
\* awaiting a createModeSession.
ChainEnded ==
  /\ modeSession.calls # << >>
  /\ LET last == modeSession.calls[Len(modeSession.calls)]
     IN last.completed /\ last.created # "pending"

\* C30: of the handlers of an invocation's process and timer (and of its
\* createModeSession) at most one completes the call; the promise of every
\* invocation is resolved at most once and onDone is called at most once in the
\* top-level call; and when the chain of invocations has ended, exactly one
\* handler of its last invocation has completed, every promise has been resolved
\* and onDone has been called, each exactly once.
C30_CompletedExactlyOnce ==
  /\ modeSession.onDone <= 1
  /\ \A d \in Invocations :
       /\ modeSession.calls[d].resolves <= 1
       /\ Cardinality(modeSession.calls[d].by) <= 1
       /\ modeSession.calls[d].by # {} => d = Len(modeSession.calls)
  /\ ChainEnded =>
       /\ modeSession.onDone = 1
       /\ Cardinality(modeSession.calls[Len(modeSession.calls)].by) = 1
       /\ \A d \in Invocations : modeSession.calls[d].resolves = 1

\* C30's case: the call went through the create-session-and-retry path, the
\* retry's timer completed it, and the 'error' and 'close' events of the retry's
\* process came after that.
C30_LateEventsAfterRetryTimeout ==
  /\ Len(modeSession.calls) = 2
  /\ modeSession.calls[2].by = {"timeout"}
  /\ modeSession.calls[2].proc = "closed"
  /\ modeSession.calls[1].resolves = 1

\* The createModeSession runs started so far in the top-level call.
CreateRuns ==
  Cardinality({ d \in Invocations : modeSession.calls[d].created # "none" })

\* C31: the create-and-retry of a top-level call is bounded: however far the chain
\* of invocations is followed (MaxSends invocations), an invocation of it answers
\* 'not found' by completing the call instead of creating the session once more,
\* so fewer than MaxSends createModeSession runs are started.
C31_CreateAndRetryBounded == CreateRuns < MaxSends

(***************************************************************************)
(* More properties of the chat socket (SpecChat).                           *)
(***************************************************************************)

\* The chat sockets that are OPEN or CONNECTING.
LiveChatSockets == { k \in ChatSockets : chatSock[k] \in {"open", "connecting"} }

\* C32: at most one chat socket is open or connecting, and it is the one ws holds:
\* every socket ws has let go of is closing or closed.
C32_OneLiveChatSocket ==
  /\ Cardinality(LiveChatSockets) <= 1
  /\ LiveChatSockets \subseteq {ws}

\* C32's case: connect() has made a new socket while the one before it was still
\* closing, and the new one is connecting.
C32_ConnectedBehindClosingSocket ==
  \E k \in ChatSockets :
    /\ k # ws
    /\ chatSock[k] = "closing"
    /\ ws # 0 /\ chatSock[ws] = "connecting"

(***************************************************************************)
(* Properties of the chat feed (SpecFeed).                                  *)
(***************************************************************************)

\* The step handles a reply with the history of mode M: the REST reply enterMode
\* awaits, or the mode_history message on the chat socket.
ReplyFor(M) ==
  /\ M \in feed.enterCalls \cup feed.requests
  /\ \/ M \in feed.enterCalls /\ M \notin feed'.enterCalls
     \/ M \in feed.requests /\ M \notin feed'.requests

\* C33: a reply with the history of mode M that arrives while the current mode is
\* not M leaves the displayed message list as it is (it only updates the cache).
C33_ReplyRendersOnlyCurrentMode ==
  [][ \A M \in Modes :
        (ReplyFor(M) /\ feed.currentSparkMode # M)
          => feed'.messagesEl = feed.messagesEl ]_vars

\* C34: exitMode on the chat feed page leaves no message rendered for a mode in the
\* message list: the list holds the main chat history only.
C34_ExitLeavesMainHistoryOnly ==
  [][ ( /\ feed.pageState = "chatfeed"
        /\ feed.currentSparkMode # "null"
        /\ feed'.currentSparkMode = "null" )
        => \A i \in 1 .. Len(feed'.messagesEl) :
             feed'.messagesEl[i].class = "msg"
               => feed'.messagesEl[i].from \notin Modes ]_vars

(***************************************************************************)
(* Properties of lastMessageTimestamp (SpecCatchUp).                        *)
(***************************************************************************)

\* The step is the open event of a chat socket.
ChatSocketOpens ==
  \E k \in ChatSockets : chatSock[k] = "connecting" /\ chatSock'[k] = "open"

\* C39: lastMessageTimestamp never decreases and is the latest timestamp received
\* so far, in a preload or in a message; the open event of a chat socket sends
\* catch_up exactly when that timestamp is positive, with that timestamp as `since`.
C39_CatchUpSinceLatestTimestamp ==
  [][ /\ feed'.lastMessageTimestamp >= feed.lastMessageTimestamp
      /\ feed'.lastMessageTimestamp = feed'.seen
      /\ ChatSocketOpens =>
           feed'.catchUp = IF feed.seen > 0 THEN feed.seen ELSE feed.catchUp ]_vars

\* A message was received, the last preload ended with an older timestamp than the
\* latest one, and the catch_up of a chat socket asked for the messages since the
\* latest one.
C39_CaughtUpAfterOlderTimestamp ==
  /\ feed.catchUp = MaxTimestamp
  /\ feed.received > 0
  /\ feed.preloadedHistory # << >>
  /\ feed.preloadedHistory[Len(feed.preloadedHistory)] < MaxTimestamp
  /\ feed.historyLoads = 0

(***************************************************************************)
(* Properties of send and submitText (SpecSend).                            *)
(***************************************************************************)

\* The texts send is called with.
SendTexts == {"", "text"}

\* C38: while isProcessing is true, send (with any text) and submitText change
\* nothing: the message list, what was transmitted on the socket or by fetch, the
\* pending attachment, the text input and the processing flag stay as they are.
C38_NoSendWhileProcessing ==
  notes.isProcessing =>
    \A wsOpen \in BOOLEAN :
      /\ SubmitText(feed, TRUE, wsOpen) = [feed |-> feed, isProcessing |-> TRUE]
      /\ \A text \in SendTexts :
           Send(feed, TRUE, text, wsOpen) = [feed |-> feed, isProcessing |-> TRUE]

\* A message is being processed while the text input holds a text and a file is
\* attached: a submit would have something to send.
C38_SubmitWhileProcessing ==
  /\ notes.isProcessing
  /\ feed.transmitted > 0
  /\ Trim(feed.textInput) # ""
  /\ feed.pendingAttachment

(***************************************************************************)
(* Properties of the thinking sound (Spec).                                 *)
(***************************************************************************)

\* C36: while no voice session is active (isListening false) no thinking-sound
\* interval is running, and at most one is running at any time.
C36_NoThinkingSoundOutsideSession ==
  /\ thinkingInterval.running <= 1
  /\ ~isListening => thinkingInterval.running = 0

(***************************************************************************)
(* More properties of the transcript (SpecTranscript).                      *)
(***************************************************************************)

\* The position in #voice-content of the element with the given id.
PositionOf(id) == CHOOSE i \in 1 .. Len(voiceContent) : voiceContent[i].id = id

\* C35: in a session of the OpenAI variant, while the handler holds the user's
\* element and the assistant's element of the turn, the user's element stands
\* before the assistant's in #voice-content.
C35_UserBeforeAssistant ==
  (voiceMode = "openai" /\ currentUserMsg # 0 /\ currentAssistantMsg # 0)
    => PositionOf(currentUserMsg) < PositionOf(currentAssistantMsg)

\* The first transcript of the turn arrived after the assistant's element was
\* created, and its element was inserted before it.
C35_TranscriptAfterAssistantBegan ==
  /\ voiceMode = "openai"
  /\ currentUserMsg # 0 /\ currentAssistantMsg # 0
  /\ currentUserMsg > currentAssistantMsg
  /\ PositionOf(currentUserMsg) + 1 = PositionOf(currentAssistantMsg)

(***************************************************************************)
(* Properties of the three modes (SpecModes).                               *)
(***************************************************************************)

\* A voice session holds the microphone: a stream a capture start acquired is live.
VoiceHoldsMicrophone == \E k \in Starts : stream[k] = "live"

\* C37: isListening is true exactly when mode is 'voice', and no notes recording is
\* active while a voice session holds the microphone.
C37_ModesMutuallyExclusive ==
  /\ isListening <=> mode = "voice"
  /\ ~(notes.mediaRecorder = "recording" /\ VoiceHoldsMicrophone)

====
